---------------------------- MODULE Spec2Model ----------------------------
(***************************************************************************)
(* A model of the creature cognition-and-lifecycle engine of               *)
(* creatures-clone: Metabolism, Language, Emotions, Creature, Breed and    *)
(* the World tick loop.                                                    *)
(*                                                                         *)
(* float64 quantities are fixed-point integers: a metabolic or emotional   *)
(* scalar v is held as v * Unit, a position or velocity as v * PosUnit,    *)
(* an age as a number of ticks (one Creature.Update adds 1/3600 minute).   *)
(* A product with a decimal factor is rounded toward zero.                 *)
(***************************************************************************)
EXTENDS Integers, Sequences, FiniteSets, TLC

VARIABLES
    met,        \* MetabolismSpec: the Metabolism under test
    metCalls,   \* MetabolismSpec: number of calls made so far
    lang,       \* LanguageSpec: the Language under test
    langCalls,  \* LanguageSpec: number of calls made so far
    lastHeard,  \* HearingSpec: the word and context of the last HearWord call
    emo,        \* EmotionsSpec: the Emotions under test
    emoCalls,   \* EmotionsSpec: number of calls made so far
    learn,      \* LearningSpec: the Learning under test
    learnCalls, \* LearningSpec: number of calls made so far
    genome,     \* GeneticsSpec: the Genetics values under test
    geneCalls,  \* GeneticsSpec: number of calls made so far
    brain,      \* BrainSpec: the Brain under test and what Process returned
    brainCalls, \* BrainSpec: number of calls made so far
    creatures,  \* WorldSpec: World.creatures
    objects,    \* WorldSpec: World.objects
    grid,       \* WorldSpec: World.grid.cells
    timeOfDay,  \* WorldSpec: World.timeOfDay, in ticks of a day
    pc,         \* WorldSpec: the position inside World.Update
    idx,        \* WorldSpec: the index of the running loop
    nearby,     \* WorldSpec: what the last GetNearbyEntities returned
    nextID,     \* WorldSpec: the next identity to hand out
    ticks,      \* WorldSpec: number of World.Update calls that returned
    queries,    \* WorldSpec: neighbor queries made in this tick
    gridOps,    \* WorldSpec: Clear and Add calls made in this tick
    tickStart,  \* WorldSpec: creatures and objects as this tick found them
    births,     \* WorldSpec: creatures added by breeding in this tick
    eligible,   \* WorldSpec: pairs that passed the test at breeding resolution
    meals,      \* WorldSpec: Eat calls made, each with eater and food item
    kin,        \* KinSpec: the heap and the creatures whose subsystems live on it
    kinCalls,   \* KinSpec: number of calls made so far
    spatial     \* GridSpec: a SpatialGrid, the Add calls made on it and the last query

metVars  == <<met, metCalls>>
langVars == <<lang, langCalls, lastHeard>>
emoVars  == <<emo, emoCalls>>
learnVars == <<learn, learnCalls>>
geneVars == <<genome, geneCalls>>
brainVars == <<brain, brainCalls>>
kinVars == <<kin, kinCalls>>
spatialVars == <<spatial>>
unitVars == <<learnVars, geneVars, brainVars, kinVars, spatialVars>>
worldVars == <<creatures, objects, grid, timeOfDay, pc, idx, nearby, nextID, ticks,
               queries, gridOps, tickStart, births, eligible, meals>>
vars     == <<metVars, langVars, emoVars, worldVars, unitVars>>

----------------------------------------------------------------------------
(* Fixed-point arithmetic *)

\* One unit of a metabolic/emotional scalar: 1.0 is Unit.
Unit == 10^5

\* utils.Clamp
Clamp(value, lo, hi) ==
    IF value < lo THEN lo ELSE IF value > hi THEN hi ELSE value

\* utils.Min
Min(a, b) == IF a < b THEN a ELSE b

\* a * n / d for a >= 0, n >= 0, d > 0, rounded down, without leaving 32 bits
MulDivNat(a, n, d) == (a \div d) * n + ((a % d) * n) \div d

\* a * n / d rounded toward zero, for a of either sign
MulDiv(a, n, d) == IF a >= 0 THEN MulDivNat(a, n, d) ELSE 0 - MulDivNat(0 - a, n, d)

\* The [0,100] range of a metabolic scalar
Pct(v) == Clamp(v, 0, 100 * Unit)

----------------------------------------------------------------------------
(* Metabolism (src/creature/metabolism.go) *)

NewMetabolism ==
    [ Health |-> 100 * Unit, Hunger |-> 30 * Unit, Energy |-> 80 * Unit,
      HungerRate |-> 5000, EnergyRate |-> 3000, HealingRate |-> 2000,
      Glucose |-> 50 * Unit, Toxins |-> 0, Endorphins |-> 30 * Unit,
      Adrenaline |-> 10 * Unit, TotalFoodEaten |-> 0 ]

\* processChemicals without the glucose branch: nothing is digested
processChemicalsFasting(m) ==
    LET m2 == IF m.Toxins > 0
              THEN [m EXCEPT !.Toxins = Pct(@ - 5000)]
              ELSE m
    IN  [m2 EXCEPT !.Endorphins = Pct(@ - 2000),
                   !.Adrenaline = Pct(@ - 3000)]

processChemicals(m) ==
    LET glucoseUsed == Min(m.Glucose, 10000)
        m1 == IF m.Glucose > 0
              THEN [m EXCEPT !.Glucose = @ - glucoseUsed,
                             !.Energy = Pct(@ + glucoseUsed * 2),
                             !.Hunger = Pct(@ - glucoseUsed * 3)]
              ELSE m
        m2 == IF m1.Toxins > 0
              THEN [m1 EXCEPT !.Toxins = Pct(@ - 5000)]
              ELSE m1
    IN  [m2 EXCEPT !.Endorphins = Pct(@ - 2000),
                   !.Adrenaline = Pct(@ - 3000)]

\* Metabolism.Update(activityLevel); activityLevel is in Unit
MetabolismUpdate(m, activityLevel) ==
    LET energyLoss == MulDivNat(m.EnergyRate, Unit + activityLevel, Unit)
        m1 == [m EXCEPT !.Hunger = Pct(@ + m.HungerRate)]
        m2 == [m1 EXCEPT !.Energy = Pct(@ - energyLoss)]
        m3 == processChemicals(m2)
        m4 == IF m3.Hunger > 80 * Unit
              THEN [m3 EXCEPT !.Health = @ - 10000]
              ELSE IF m3.Hunger < 50 * Unit /\ m3.Energy > 30 * Unit
                   THEN [m3 EXCEPT !.Health = Pct(@ + m3.HealingRate)]
                   ELSE m3
        m5 == IF m4.Energy < 20 * Unit
              THEN [m4 EXCEPT !.Health = @ - 5000]
              ELSE m4
        m6 == IF m5.Toxins > 50 * Unit
              THEN [m5 EXCEPT !.Health = @ - MulDivNat(m5.Toxins, 1, 1000)]
              ELSE m5
    IN  [m6 EXCEPT !.Health = Pct(@)]

\* Eat that leaves the hunger where it was
MetabolismEatUnsated(m, nutritionValue) ==
    [m EXCEPT !.Glucose = Pct(@ + nutritionValue),
              !.Endorphins = Pct(@ + 5 * Unit),
              !.TotalFoodEaten = @ + 1]

\* Metabolism.Eat(nutritionValue)
MetabolismEat(m, nutritionValue) ==
    [m EXCEPT !.Glucose = Pct(@ + nutritionValue),
              !.Hunger = Pct(@ - MulDiv(nutritionValue, 1, 2)),
              !.Endorphins = Pct(@ + 5 * Unit),
              !.TotalFoodEaten = @ + 1]

\* Metabolism.Sleep()
MetabolismSleep(m) ==
    LET m1 == [m EXCEPT !.Energy = Pct(@ + 20000)]
        m2 == IF m1.Health < 100 * Unit /\ m1.Hunger < 70 * Unit
              THEN [m1 EXCEPT !.Health = Pct(@ + m1.HealingRate * 2)]
              ELSE m1
    IN  IF m2.Toxins > 0 THEN [m2 EXCEPT !.Toxins = Pct(@ - 10000)] ELSE m2

\* Metabolism.IngestToxin(amount)
MetabolismIngestToxin(m, amount) ==
    LET m1 == [m EXCEPT !.Toxins = Pct(@ + amount)]
    IN  IF amount > 20 * Unit
        THEN [m1 EXCEPT !.Health = @ - MulDiv(amount, 2, 10)]
        ELSE m1

\* Metabolism.Exercise(intensity)
MetabolismExercise(m, intensity) ==
    [m EXCEPT !.Energy = Pct(@ - MulDiv(intensity, 1, 10)),
              !.Hunger = Pct(@ + MulDiv(intensity, 5, 100)),
              !.Endorphins = Pct(@ + MulDiv(intensity, 2, 10)),
              !.Adrenaline = Pct(@ + MulDiv(intensity, 3, 10))]

----------------------------------------------------------------------------
(* MetabolismSpec: one Metabolism driven through its public methods *)

\* Number of calls explored
MaxMetCalls == 5

ActivityLevels == {0, Unit}
NutritionValues == {25 * Unit}
ToxinAmounts == {30 * Unit, 250 * Unit}
Intensities == {10 * Unit, 400 * Unit}

MetInit ==
    /\ met = NewMetabolism
    /\ metCalls = 0
    /\ lang = <<>> /\ langCalls = 0 /\ lastHeard = <<>>
    /\ emo = <<>> /\ emoCalls = 0
    /\ creatures = <<>> /\ objects = <<>> /\ grid = <<>> /\ timeOfDay = 0
    /\ pc = "idle" /\ idx = 1 /\ nearby = <<>> /\ nextID = 1 /\ ticks = 0
    /\ queries = 0 /\ gridOps = 0 /\ tickStart = <<>> /\ births = 0
    /\ eligible = 0 /\ meals = <<>>
    /\ learn = <<>> /\ learnCalls = 0 /\ genome = <<>> /\ geneCalls = 0
    /\ brain = <<>> /\ brainCalls = 0
    /\ kin = <<>> /\ kinCalls = 0
    /\ spatial = <<>>

MetOthersUnchanged == UNCHANGED <<langVars, emoVars, worldVars, unitVars>>

MetUpdate ==
    /\ metCalls < MaxMetCalls
    /\ \E a \in ActivityLevels : met' = MetabolismUpdate(met, a)
    /\ metCalls' = metCalls + 1
    /\ MetOthersUnchanged

MetEat ==
    /\ metCalls < MaxMetCalls
    /\ \E n \in NutritionValues : met' = MetabolismEat(met, n)
    /\ metCalls' = metCalls + 1
    /\ MetOthersUnchanged

MetSleep ==
    /\ metCalls < MaxMetCalls
    /\ met' = MetabolismSleep(met)
    /\ metCalls' = metCalls + 1
    /\ MetOthersUnchanged

MetIngestToxin ==
    /\ metCalls < MaxMetCalls
    /\ \E amount \in ToxinAmounts : met' = MetabolismIngestToxin(met, amount)
    /\ metCalls' = metCalls + 1
    /\ MetOthersUnchanged

MetExercise ==
    /\ metCalls < MaxMetCalls
    /\ \E i \in Intensities : met' = MetabolismExercise(met, i)
    /\ metCalls' = metCalls + 1
    /\ MetOthersUnchanged

MetNext == MetUpdate \/ MetEat \/ MetSleep \/ MetIngestToxin \/ MetExercise

----------------------------------------------------------------------------
MetabolismSpec == MetInit /\ [][MetNext]_vars

----------------------------------------------------------------------------
(* Claims about Metabolism *)

InPct(v) == 0 <= v /\ v <= 100 * Unit

\* C1: after every call of Update, Eat, Sleep, IngestToxin and Exercise with
\* non-negative arguments, each of Health, Hunger, Energy, Glucose, Toxins,
\* Endorphins and Adrenaline lies in [0,100].
C1_ScalarsInRange ==
    /\ InPct(met.Health) /\ InPct(met.Hunger) /\ InPct(met.Energy)
    /\ InPct(met.Glucose) /\ InPct(met.Toxins)
    /\ InPct(met.Endorphins) /\ InPct(met.Adrenaline)

----------------------------------------------------------------------------
(* Language (src/unnamed/part_006) *)

(* A normalized word is a number: 0 is the empty string "", 1..NumWords are  *)
(* distinct non-empty lower-case words.  A raw word, as a caller passes it,  *)
(* is a record [base, form]: the word's letters (a normalized word) written  *)
(* in one of the RawForms ("plain": as is; "mixed": upper-case letters with  *)
(* surrounding blanks; "blank": base 0 written as blanks only).              *)
(* Confidence is in Unit; LastUsed and SpeechTimer are in milliseconds.      *)

\* Size of the universe of non-empty words
NumWords == 52

\* The empty string
EmptyWord == 0

VocabularyLimit == 50

Comprehension == Unit \div 2

RawForms == {"plain", "mixed"}

\* strings.ToLower(strings.TrimSpace(word))
Normalize(raw) == raw.base

NewLanguage ==
    [ Vocabulary |-> <<>>, RecentWords |-> <<>>,
      CurrentWord |-> EmptyWord, SpeechTimer |-> 0 ]

\* delete(l.Vocabulary, word)
MapDelete(voc, word) == [w \in (DOMAIN voc) \ {word} |-> voc[w]]

\* l.Vocabulary[word] = concept
MapPut(voc, word, concept) == (word :> concept) @@ voc

\* An addRecentWord that drops the word just added when the list is full
addRecentWordDroppingNewest(recent, word) ==
    LET appended == Append(recent, word)
    IN  IF Len(appended) > 5 THEN SubSeq(appended, 1, 5) ELSE appended

\* Language.addRecentWord
addRecentWord(recent, word) ==
    LET appended == Append(recent, word)
    IN  IF Len(appended) > 5 THEN Tail(appended) ELSE appended

\* The words the loop of replaceLeastUsedWord can end with as leastUsed: the
\* loop keeps the first word it meets with the smallest TimesUsed, and Go
\* iterates a map in an unspecified order, so any word with the smallest
\* TimesUsed can be it; an empty map leaves leastUsed "".
LeastUsedWords(voc) ==
    IF DOMAIN voc = {} THEN {EmptyWord}
    ELSE {w \in DOMAIN voc : \A x \in DOMAIN voc : voc[w].TimesUsed <= voc[x].TimesUsed}

\* Language.replaceLeastUsedWord with the loop ending on leastUsed
ReplaceLeastUsedWordAt(voc, leastUsed, newWord, objectType) ==
    IF leastUsed # EmptyWord
    THEN MapPut(MapDelete(voc, leastUsed), newWord,
                [ObjectType |-> objectType, Confidence |-> MulDivNat(Comprehension, 3, 10),
                 TimesUsed |-> 1, LastUsed |-> 0])
    ELSE voc

\* Language.replaceLeastUsedWord: the set of vocabularies it can leave
replaceLeastUsedWord(voc, newWord, objectType) ==
    {ReplaceLeastUsedWordAt(voc, leastUsed, newWord, objectType) :
        leastUsed \in LeastUsedWords(voc)}

\* Language.learnWordFromContext: the set of vocabularies it can leave
learnWordFromContext(voc, word) ==
    IF word \in DOMAIN voc
    THEN {[voc EXCEPT ![word] = [@ EXCEPT !.Confidence = Min(Unit, @ + 10000),
                                          !.TimesUsed = @ + 1,
                                          !.LastUsed = 0]]}
    ELSE IF Cardinality(DOMAIN voc) < VocabularyLimit
         THEN {MapPut(voc, word,
                      [ObjectType |-> "unknown", Confidence |-> MulDivNat(Comprehension, 3, 10),
                       TimesUsed |-> 1, LastUsed |-> 0])}
         ELSE replaceLeastUsedWord(voc, word, "unknown")

\* Language.HearWord(word, context): the set of Language states it can leave
LanguageHearWord(l, raw, hasContext) ==
    LET word == Normalize(raw)
    IN  IF word = EmptyWord THEN {l}
        ELSE LET l1 == [l EXCEPT !.RecentWords = addRecentWord(@, word)]
             IN  IF hasContext
                 THEN {[l1 EXCEPT !.Vocabulary = voc] :
                          voc \in learnWordFromContext(l1.Vocabulary, word)}
                 ELSE {l1}

\* Language.TeachWord(word, objectType): the set of Language states it can leave
LanguageTeachWord(l, raw, objectType) ==
    LET word == Normalize(raw)
        taught == MapPut(MapDelete(l.Vocabulary, word), word,
                         [ObjectType |-> objectType, Confidence |-> 80000,
                          TimesUsed |-> 0, LastUsed |-> 0])
    IN  IF Cardinality(DOMAIN taught) > VocabularyLimit
        THEN {[l EXCEPT !.Vocabulary = voc] :
                 voc \in replaceLeastUsedWord(taught, EmptyWord, "")}
        ELSE {[l EXCEPT !.Vocabulary = taught]}

\* Language.Speak(thought): the set of Language states it can leave.  The loop
\* returns at the first matching word in map order (any matching word);
\* rand.Float64() > SpeechClarity garbles the word and changes nothing, as
\* does the babble when no word matches.
LanguageSpeak(l, thought) ==
    LET matching == {w \in DOMAIN l.Vocabulary :
                        /\ l.Vocabulary[w].ObjectType = thought
                        /\ l.Vocabulary[w].Confidence > 50000}
    IN  {l} \cup
        {[l EXCEPT !.CurrentWord = w, !.SpeechTimer = 1000,
                   !.Vocabulary[w] = [@ EXCEPT !.TimesUsed = @ + 1, !.LastUsed = 0]] :
            w \in matching}

\* The loop body of Language.Update on one entry: concept is a copy of the map
\* entry, aged by 0.016, and it is stored back (or the entry deleted) only
\* inside the LastUsed > 600 branch; otherwise the entry stays as it was.
AgedConcept(concept) ==
    IF concept.LastUsed + 16 > 600000
    THEN [concept EXCEPT !.LastUsed = @ + 16,
                         !.Confidence = MulDivNat(@, 999, 1000)]
    ELSE concept

\* Whether the loop body deletes the entry
ConceptForgotten(concept) ==
    /\ concept.LastUsed + 16 > 600000
    /\ MulDivNat(concept.Confidence, 999, 1000) < 10000

\* The loop of Language.Update over the whole map (each iteration reads and
\* writes its own entry only)
UpdateEntries(voc) ==
    [w \in {x \in DOMAIN voc : ~ConceptForgotten(voc[x])} |-> AgedConcept(voc[w])]

\* Language.Update()
LanguageUpdate(l) ==
    LET timer == l.SpeechTimer - 16
        l1 == IF l.SpeechTimer > 0
              THEN [l EXCEPT !.SpeechTimer = timer,
                             !.CurrentWord = IF timer <= 0 THEN EmptyWord ELSE @]
              ELSE l
    IN  [l1 EXCEPT !.Vocabulary = UpdateEntries(@)]

\* Language.GetVocabularySize
GetVocabularySize(l) == Cardinality(DOMAIN l.Vocabulary)

----------------------------------------------------------------------------
(* LanguageSpec: one Language driven through its public methods *)

\* Number of calls explored
MaxLangCalls == 3

\* Vocabulary sizes the exploration starts from
InitSizes == {0, VocabularyLimit - 1, VocabularyLimit}

\* Number of words of a start vocabulary that were taught rather than heard
InitTaught == 2

\* The words a call can bring: the empty string, a word of every start
\* vocabulary but the empty one, and two words of none
OfferedWords == {EmptyWord, 1, NumWords - 1, NumWords}

RawWords == [base : OfferedWords, form : RawForms]

ObjectTypes == {"toy", "food"}

\* First n items of 1, 2, 3, ...
RECURSIVE Iota(_)
Iota(n) == IF n = 0 THEN <<>> ELSE Append(Iota(n - 1), n)

\* The Language after HearWord(w, ctx) for w = 1 .. n - InitTaught in turn and
\* then TeachWord(w, "toy") for the InitTaught following words
LanguageAfter(n) ==
    LET heard == IF n > InitTaught THEN n - InitTaught ELSE 0
    IN  [ Vocabulary |->
            [w \in 1..n |->
                IF w <= heard
                THEN [ObjectType |-> "unknown", Confidence |-> MulDivNat(Comprehension, 3, 10),
                      TimesUsed |-> 1, LastUsed |-> 0]
                ELSE [ObjectType |-> "toy", Confidence |-> 80000,
                      TimesUsed |-> 0, LastUsed |-> 0]],
          RecentWords |-> SubSeq(Iota(heard), IF heard > 5 THEN heard - 4 ELSE 1, heard),
          CurrentWord |-> EmptyWord, SpeechTimer |-> 0 ]

LangInit ==
    /\ \E n \in InitSizes : lang = LanguageAfter(n)
    /\ langCalls = 0 /\ lastHeard = <<>>
    /\ met = <<>> /\ metCalls = 0
    /\ emo = <<>> /\ emoCalls = 0
    /\ creatures = <<>> /\ objects = <<>> /\ grid = <<>> /\ timeOfDay = 0
    /\ pc = "idle" /\ idx = 1 /\ nearby = <<>> /\ nextID = 1 /\ ticks = 0
    /\ queries = 0 /\ gridOps = 0 /\ tickStart = <<>> /\ births = 0
    /\ eligible = 0 /\ meals = <<>>
    /\ learn = <<>> /\ learnCalls = 0 /\ genome = <<>> /\ geneCalls = 0
    /\ brain = <<>> /\ brainCalls = 0
    /\ kin = <<>> /\ kinCalls = 0
    /\ spatial = <<>>

LangOthersUnchanged == UNCHANGED <<metVars, emoVars, worldVars, unitVars>>

LangHearWord ==
    /\ langCalls < MaxLangCalls
    /\ \E raw \in RawWords, hasContext \in BOOLEAN :
          lang' \in LanguageHearWord(lang, raw, hasContext)
    /\ langCalls' = langCalls + 1
    /\ UNCHANGED lastHeard
    /\ LangOthersUnchanged

LangTeachWord ==
    /\ langCalls < MaxLangCalls
    /\ \E raw \in RawWords, objectType \in ObjectTypes :
          lang' \in LanguageTeachWord(lang, raw, objectType)
    /\ langCalls' = langCalls + 1
    /\ UNCHANGED lastHeard
    /\ LangOthersUnchanged

LangSpeak ==
    /\ langCalls < MaxLangCalls
    /\ \E thought \in ObjectTypes \cup {"unknown"} :
          lang' \in LanguageSpeak(lang, thought)
    /\ langCalls' = langCalls + 1
    /\ UNCHANGED lastHeard
    /\ LangOthersUnchanged

LangUpdate ==
    /\ langCalls < MaxLangCalls
    /\ lang' = LanguageUpdate(lang)
    /\ langCalls' = langCalls + 1
    /\ UNCHANGED lastHeard
    /\ LangOthersUnchanged

LangNext == LangHearWord \/ LangTeachWord \/ LangSpeak \/ LangUpdate

LanguageSpec == LangInit /\ [][LangNext]_vars

----------------------------------------------------------------------------
(* Claims about Language *)

\* C2: after any sequence of HearWord (with a context), TeachWord, Speak and
\* Update calls the number of vocabulary entries never exceeds
\* VocabularyLimit (50), also when a new word arrives at a full vocabulary.
C2_VocabularyWithinLimit == GetVocabularySize(lang) <= VocabularyLimit

----------------------------------------------------------------------------
(* Emotions (src/creature/movement.go, lines 246-564) *)

(* The eight scalars are in Unit, so [-100,100] is [-100*Unit, 100*Unit]; a  *)
(* bond strength is in Unit, so [-1,1] is [-Unit, Unit].  A brain output     *)
(* vector is a record of the eight channels, each in Unit.                   *)

\* An emotion left as it is, unclamped
EmoUnclamped(v) == v

\* utils.Clamp(v, -100, 100)
Emo(v) == Clamp(v, 0 - 100 * Unit, 100 * Unit)

Abs(v) == IF v < 0 THEN 0 - v ELSE v

NewEmotions ==
    [ Happiness |-> 30 * Unit, Fear |-> 0, Anger |-> 0, Curiosity |-> 50 * Unit,
      Loneliness |-> 20 * Unit, Boredom |-> 30 * Unit, Love |-> 0, Jealousy |-> 0,
      BaseHappiness |-> 0, FearThreshold |-> 50 * Unit, AngerThreshold |-> 60 * Unit,
      SocialBonds |-> <<>>, RecentEvents |-> <<>>, Recorded |-> <<>> ]

\* An addEvent that, on overflow, drops the event it was given
addEventNewestDropped(e, eventType, intensity) ==
    LET event == [Type |-> eventType, Intensity |-> intensity]
        appended == Append(e.RecentEvents, event)
    IN  [e EXCEPT !.RecentEvents = IF Len(appended) > 10 THEN SubSeq(appended, 1, 10)
                                   ELSE appended,
                  !.Recorded = Append(@, event)]

\* Emotions.addEvent.  Recorded is a history field, read by no method: every
\* event ever passed to addEvent, in call order.
addEvent(e, eventType, intensity) ==
    LET event == [Type |-> eventType, Intensity |-> intensity]
        appended == Append(e.RecentEvents, event)
    IN  [e EXCEPT !.RecentEvents = IF Len(appended) > 10 THEN Tail(appended) ELSE appended,
                  !.Recorded = Append(@, event)]

\* Emotions.cleanOldEvents
cleanOldEvents(e) ==
    LET n == Len(e.RecentEvents)
    IN  IF n > 10 THEN [e EXCEPT !.RecentEvents = SubSeq(@, n - 9, n)] ELSE e

\* Emotions.AdjustHappiness(amount)
AdjustHappiness(e, amount) ==
    LET e1 == [e EXCEPT !.Happiness = Emo(@ + amount)]
    IN  IF Abs(amount) > 5 * Unit THEN addEvent(e1, "happiness", amount) ELSE e1

\* Emotions.AdjustFear(amount)
AdjustFear(e, amount) ==
    LET e1 == [e EXCEPT !.Fear = Emo(@ + amount)]
    IN  IF e1.Fear > e1.FearThreshold THEN addEvent(e1, "fear_response", e1.Fear) ELSE e1

\* Emotions.AdjustAnger(amount)
AdjustAnger(e, amount) ==
    LET e1 == [e EXCEPT !.Anger = Emo(@ + amount)]
    IN  IF e1.Anger > e1.AngerThreshold THEN addEvent(e1, "anger_response", e1.Anger) ELSE e1

\* Emotions.AdjustCuriosity(amount)
AdjustCuriosity(e, amount) == [e EXCEPT !.Curiosity = Emo(@ + amount)]

\* Emotions.UpdateSocialBond(creatureID, interaction); a missing key reads 0
UpdateSocialBond(e, creatureID, interaction) ==
    LET current == IF creatureID \in DOMAIN e.SocialBonds THEN e.SocialBonds[creatureID] ELSE 0
        bond == Clamp(current + interaction, 0 - Unit, Unit)
        e1 == [e EXCEPT !.SocialBonds = (creatureID :> bond) @@ @]
    IN  IF interaction > 0
        THEN [e1 EXCEPT !.Loneliness = Emo(@ - interaction * 10)]
        ELSE e1

\* Emotions.applyInertia, EmotionalInertia being 0.9 (and 0.9 * 0.9 = 0.81)
applyInertia(e) ==
    [e EXCEPT !.Happiness = MulDiv(@, 9, 10), !.Fear = MulDiv(@, 9, 10),
              !.Anger = MulDiv(@, 9, 10), !.Curiosity = MulDiv(@, 9, 10),
              !.Loneliness = MulDiv(@, 81, 100), !.Boredom = MulDiv(@, 81, 100),
              !.Love = MulDiv(@, 81, 100), !.Jealousy = MulDiv(@, 81, 100)]

\* Emotions.updateFromMetabolism
updateFromMetabolism(e, m) ==
    LET e1 == IF m.Hunger > 70 * Unit
              THEN AdjustAnger(AdjustHappiness(e, 0 - 5 * Unit), 3 * Unit)
              ELSE e
        e2 == IF m.Energy < 30 * Unit
              THEN [e1 EXCEPT !.Boredom = @ + 2 * Unit, !.Curiosity = @ - 3 * Unit]
              ELSE e1
        e3 == IF m.Health < 50 * Unit
              THEN AdjustHappiness(AdjustFear(e2, MulDiv(50 * Unit - m.Health, 2, 10)),
                                   0 - 3 * Unit)
              ELSE e2
        e4 == AdjustHappiness(e3, MulDiv(m.Endorphins, 1, 10))
    IN  IF m.Adrenaline > 50 * Unit
        THEN AdjustAnger(AdjustFear(e4, MulDiv(m.Adrenaline, 5, 100)),
                         MulDiv(m.Adrenaline, 3, 100))
        ELSE e4

\* Emotions.updateFromBrainActivity
updateFromBrainActivity(e, brainOutput) ==
    LET e1 == IF brainOutput.Play > 50000
              THEN [AdjustHappiness(e, 5 * Unit) EXCEPT !.Boredom = Emo(@ - 10 * Unit)]
              ELSE e
        e2 == IF brainOutput.Speak > 50000
              THEN AdjustHappiness([e1 EXCEPT !.Loneliness = Emo(@ - 5 * Unit)], 2 * Unit)
              ELSE e1
        movement == IF brainOutput.MoveLeft > brainOutput.MoveRight
                    THEN brainOutput.MoveLeft ELSE brainOutput.MoveRight
    IN  IF movement > 50000
        THEN [e2 EXCEPT !.Curiosity = Emo(@ + Unit), !.Boredom = Emo(@ - 2 * Unit)]
        ELSE e2

\* The strongest positive bond, 0 when there is none
MaxBond(bonds) ==
    IF \E id \in DOMAIN bonds : bonds[id] > 0
    THEN CHOOSE b \in {bonds[id] : id \in DOMAIN bonds} :
            \A id \in DOMAIN bonds : bonds[id] <= b
    ELSE 0

\* Emotions.updateSecondaryEmotions
updateSecondaryEmotions(e) ==
    LET e1 == [e EXCEPT !.Loneliness = Emo(@ + 10000)]
        e2 == IF Abs(e1.Curiosity) < 20 * Unit
              THEN [e1 EXCEPT !.Boredom = Emo(@ + 20000)]
              ELSE e1
        e3 == [e2 EXCEPT !.Love = Emo(MaxBond(e2.SocialBonds) * 100)]
        e4 == IF e3.Happiness > 50 * Unit
              THEN [e3 EXCEPT !.Fear = MulDiv(@, 95, 100), !.Anger = MulDiv(@, 95, 100),
                              !.Loneliness = MulDiv(@, 95, 100)]
              ELSE e3
    IN  IF e4.Fear > 70 * Unit
        THEN [e4 EXCEPT !.Curiosity = MulDiv(@, 8, 10), !.Happiness = MulDiv(@, 9, 10)]
        ELSE e4

\* Emotions.applyBaselineDrift
applyBaselineDrift(e) ==
    [e EXCEPT !.Happiness = @ + MulDiv(e.BaseHappiness - @, 1, 100),
              !.Fear = @ + MulDiv(0 - @, 1, 100),
              !.Anger = @ + MulDiv(0 - @, 1, 100)]

\* Emotions.clampEmotions
clampEmotions(e) ==
    [e EXCEPT !.Happiness = Emo(@), !.Fear = Emo(@), !.Anger = Emo(@),
              !.Curiosity = Emo(@), !.Loneliness = Emo(@), !.Boredom = Emo(@),
              !.Love = Emo(@), !.Jealousy = Emo(@)]

\* Emotions.Update(metabolism, brainOutput)
EmotionsUpdate(e, m, brainOutput) ==
    cleanOldEvents(clampEmotions(applyBaselineDrift(updateSecondaryEmotions(
        updateFromBrainActivity(updateFromMetabolism(applyInertia(e), m), brainOutput)))))

\* A brain output vector with every channel at the same level
UniformOutput(level) ==
    [ MoveLeft |-> level, MoveRight |-> level, Jump |-> level, Eat |-> level,
      Sleep |-> level, Play |-> level, Speak |-> level, Breed |-> level ]

----------------------------------------------------------------------------
(* EmotionsSpec: one Emotions driven through its public methods *)

\* Number of calls explored
MaxEmoCalls == 3

\* A Metabolism in distress, as starvation, exhaustion and exercise leave it
DistressedMetabolism ==
    [NewMetabolism EXCEPT !.Health = 20 * Unit, !.Hunger = 90 * Unit, !.Energy = 10 * Unit,
                          !.Endorphins = 80 * Unit, !.Adrenaline = 90 * Unit, !.Glucose = 0]

EmoMetabolisms == {NewMetabolism, DistressedMetabolism}
EmoOutputs == {UniformOutput(30000), UniformOutput(90000)}
EmoAmounts == {0 - 250 * Unit, 30 * Unit, 250 * Unit}
BondPeers == {"peer1"}
BondInteractions == {0 - 2 * Unit, Unit \div 2, 2 * Unit}

\* Number of AdjustHappiness calls made on the older of the two Emotions
\* the exploration starts from
PriorAdjusts == 9

RECURSIVE EmotionsAfter(_)
\* NewEmotions() followed by AdjustHappiness(7), AdjustHappiness(8), ...: n
\* calls, each recording an event of its own intensity
EmotionsAfter(n) ==
    IF n = 0 THEN NewEmotions
    ELSE AdjustHappiness(EmotionsAfter(n - 1), (6 + n) * Unit)

EmoInit ==
    /\ emo \in {NewEmotions, EmotionsAfter(PriorAdjusts)}
    /\ emoCalls = 0
    /\ met = <<>> /\ metCalls = 0
    /\ lang = <<>> /\ langCalls = 0 /\ lastHeard = <<>>
    /\ creatures = <<>> /\ objects = <<>> /\ grid = <<>> /\ timeOfDay = 0
    /\ pc = "idle" /\ idx = 1 /\ nearby = <<>> /\ nextID = 1 /\ ticks = 0
    /\ queries = 0 /\ gridOps = 0 /\ tickStart = <<>> /\ births = 0
    /\ eligible = 0 /\ meals = <<>>
    /\ learn = <<>> /\ learnCalls = 0 /\ genome = <<>> /\ geneCalls = 0
    /\ brain = <<>> /\ brainCalls = 0
    /\ kin = <<>> /\ kinCalls = 0
    /\ spatial = <<>>

EmoOthersUnchanged == UNCHANGED <<metVars, langVars, worldVars, unitVars>>

EmoUpdate ==
    /\ emoCalls < MaxEmoCalls
    /\ \E m \in EmoMetabolisms, out \in EmoOutputs : emo' = EmotionsUpdate(emo, m, out)
    /\ emoCalls' = emoCalls + 1
    /\ EmoOthersUnchanged

EmoAdjustHappiness ==
    /\ emoCalls < MaxEmoCalls
    /\ \E amount \in EmoAmounts : emo' = AdjustHappiness(emo, amount)
    /\ emoCalls' = emoCalls + 1
    /\ EmoOthersUnchanged

EmoAdjustFear ==
    /\ emoCalls < MaxEmoCalls
    /\ \E amount \in EmoAmounts : emo' = AdjustFear(emo, amount)
    /\ emoCalls' = emoCalls + 1
    /\ EmoOthersUnchanged

EmoAdjustAnger ==
    /\ emoCalls < MaxEmoCalls
    /\ \E amount \in EmoAmounts : emo' = AdjustAnger(emo, amount)
    /\ emoCalls' = emoCalls + 1
    /\ EmoOthersUnchanged

EmoAdjustCuriosity ==
    /\ emoCalls < MaxEmoCalls
    /\ \E amount \in EmoAmounts : emo' = AdjustCuriosity(emo, amount)
    /\ emoCalls' = emoCalls + 1
    /\ EmoOthersUnchanged

EmoUpdateSocialBond ==
    /\ emoCalls < MaxEmoCalls
    /\ \E id \in BondPeers, interaction \in BondInteractions :
          emo' = UpdateSocialBond(emo, id, interaction)
    /\ emoCalls' = emoCalls + 1
    /\ EmoOthersUnchanged

EmoNext ==
    \/ EmoUpdate \/ EmoAdjustHappiness \/ EmoAdjustFear \/ EmoAdjustAnger
    \/ EmoAdjustCuriosity \/ EmoUpdateSocialBond

EmotionsSpec == EmoInit /\ [][EmoNext]_vars

----------------------------------------------------------------------------
(* Claims about Emotions *)

InEmoRange(v) == 0 - 100 * Unit <= v /\ v <= 100 * Unit

\* C10: after every Emotions.Update and every AdjustHappiness, AdjustFear,
\* AdjustAnger, AdjustCuriosity or UpdateSocialBond call, all eight emotion
\* scalars lie in [-100,100] and every social bond strength lies in [-1,1].
C10_EmotionsInRange ==
    /\ InEmoRange(emo.Happiness) /\ InEmoRange(emo.Fear)
    /\ InEmoRange(emo.Anger) /\ InEmoRange(emo.Curiosity)
    /\ InEmoRange(emo.Loneliness) /\ InEmoRange(emo.Boredom)
    /\ InEmoRange(emo.Love) /\ InEmoRange(emo.Jealousy)
    /\ \A id \in DOMAIN emo.SocialBonds :
          0 - Unit <= emo.SocialBonds[id] /\ emo.SocialBonds[id] <= Unit

\* C10 witness: calls have pushed a scalar and a bond against their limits
C10_Witness ==
    /\ emoCalls = MaxEmoCalls
    /\ emo.Happiness = 100 * Unit
    /\ emo.Fear = 0 - 100 * Unit
    /\ \E id \in DOMAIN emo.SocialBonds : emo.SocialBonds[id] = Unit

\* The last n elements of s, all of it when it has fewer
C11_LastOf(s, n) == IF Len(s) > n THEN SubSeq(s, Len(s) - n + 1, Len(s)) ELSE s

\* C11: the recent-event list never holds more than 10 events after any
\* sequence of Adjust* and Update calls; when an 11th event is recorded the
\* oldest is the one evicted and the others keep their order: the list is
\* always the last 10 (or fewer) of the events recorded, in recording order.
C11_LastTenEvents ==
    /\ Len(emo.RecentEvents) <= 10
    /\ emo.RecentEvents = C11_LastOf(emo.Recorded, 10)

\* C11 witness: calls have recorded more than 10 events, the last call more
\* than one of them
C11_Witness ==
    /\ emoCalls > 0
    /\ Len(emo.Recorded) >= 12
    /\ Len(emo.RecentEvents) = 10
    /\ emo.RecentEvents[10].Type # "happiness"

----------------------------------------------------------------------------
(* Creature (src/unnamed/part_004), Movement (src/creature/movement.go),    *)
(* Breed (src/creature/breed.go)                                            *)

(* A creature is a record.  X, Y, VelocityX and VelocityY are in PosUnit (a  *)
(* hundredth of a pixel); Age and LastBreedTime are in ticks, since every    *)
(* Update adds 1/3600 of a game minute; Output is what Brain.GetOutput       *)
(* returns.  ID stands for the identity of the *Creature pointer.  The       *)
(* weights of the Brain, Learning, Language, Genetics, the sensor arrays and *)
(* the animation fields are not held: the weights reach the rest of the      *)
(* creature only through the output vector Brain.Process leaves, which is    *)
(* chosen freely at each Update, every vocabulary starts empty and no word   *)
(* is taught here, and HasTarget stays false since no target is set.         *)

\* One pixel
PosUnit == 10^2

\* Creature.Update adds 1.0 / (60.0 * 60.0) to Age: ticks in one age unit
TicksPerMinute == 3600

\* Go integer division and float-to-int conversion truncate toward zero
TruncDiv(a, b) == IF a >= 0 THEN a \div b ELSE 0 - ((0 - a) \div b)

\* utils.Distance(x1, y1, x2, y2) < r for r in pixels, compared by squares;
\* each leg is compared with r first so that the squares stay within 32 bits
Within(x1, y1, x2, y2, r) ==
    LET dx == x2 - x1
        dy == y2 - y1
        lim == r * PosUnit
    IN  Abs(dx) < lim /\ Abs(dy) < lim /\ dx * dx + dy * dy < lim * lim

\* The genes applyGenetics and Breed read, each in Unit
DefaultGenes ==
    [ metabolism_rate |-> Unit \div 2, movement_speed |-> Unit \div 2,
      happiness_bias |-> Unit \div 2, fear_threshold |-> Unit \div 2,
      anger_threshold |-> Unit \div 2 ]

\* NewMovement; JumpPower is 8.0 and Agility 1.0
NewMovement == [ Speed |-> 2 * Unit, IsMoving |-> FALSE, IsJumping |-> FALSE ]

\* Movement.GetSpeed, IsRunning being false
GetSpeed(m) == m.Speed

\* Speed * Agility, as a velocity
Acceleration(c) == MulDivNat(c.Movement.Speed, PosUnit, Unit)

\* Speed * 3, as a velocity
MaxSpeed(c) == MulDivNat(c.Movement.Speed * 3, PosUnit, Unit)

\* Movement.MoveLeft(&c.X, &c.VelocityX)
MoveLeft(c) ==
    [c EXCEPT !.Movement.IsMoving = TRUE,
              !.VelocityX = Clamp(@ - Acceleration(c), 0 - MaxSpeed(c), MaxSpeed(c))]

\* Movement.MoveRight(&c.X, &c.VelocityX)
MoveRight(c) ==
    [c EXCEPT !.Movement.IsMoving = TRUE,
              !.VelocityX = Clamp(@ + Acceleration(c), 0 - MaxSpeed(c), MaxSpeed(c))]

\* Movement.Jump(&c.VelocityY, onGround)
Jump(c, onGround) ==
    IF ~c.Movement.IsJumping /\ onGround
    THEN [c EXCEPT !.VelocityY = 0 - 8 * PosUnit, !.Movement.IsJumping = TRUE]
    ELSE c

\* Creature.applyGenetics, for the genes the creature holds
applyGenetics(c, genes) ==
    [c EXCEPT !.Metabolism.HungerRate = MulDivNat(@, genes.metabolism_rate, Unit),
              !.Movement.Speed = MulDivNat(@, genes.movement_speed, Unit),
              !.Emotions.BaseHappiness = (genes.happiness_bias - Unit \div 2) * 40,
              !.Emotions.FearThreshold = genes.fear_threshold * 100,
              !.Emotions.AngerThreshold = genes.anger_threshold * 100]

\* math.Pi, an angle being held in ten-thousandths of a radian
Pi == 31416

\* The number of vision sensors
VisionSize == 20

\* The tangents, in thousandths, of the angles that separate the vision
\* sensors: -81, -72, ..., 81 degrees
SensorTangents ==
    << 0 - 6314, 0 - 3078, 0 - 1963, 0 - 1376, 0 - 1000, 0 - 727, 0 - 510, 0 - 325,
       0 - 158, 0, 158, 325, 510, 727, 1000, 1376, 1963, 3078, 6314 >>

\* UpdateSensors, lines 187-188: angleToVisionIndex of
\* math.Atan2(dy, dx) - direction, the index counted from 0 and -1 standing
\* for "outside the field of view".  The direction is 0 or Pi, so the angle
\* is that of (dx, dy), turned round when the creature faces left.
angleToVisionIndex(dx, dy, direction) ==
    LET ahead == IF direction = 0 THEN dx ELSE 0 - dx
        aside == IF direction = 0 THEN dy ELSE 0 - dy
        index == Cardinality({k \in 1..(VisionSize - 1) :
                                 aside * 1000 >= ahead * SensorTangents[k]})
    IN  IF ahead < 0 THEN 0 - 1
        ELSE IF ahead = 0
             THEN IF aside > 0 THEN VisionSize - 1
                  ELSE IF aside < 0 THEN 0 ELSE VisionSize \div 2
             ELSE index

\* Creature.UpdateSensors(nearbyEntities, world): cs are the creatures the
\* entities point to, as they are when the call is made
UpdateSensors(c, nearbyEntities, cs) ==
    LET seen == {angleToVisionIndex(e.X - c.X, e.Y - c.Y, c.Direction) :
                    e \in {cs[k] : k \in {k \in DOMAIN cs :
                               /\ cs[k].ID # c.ID
                               /\ \E n \in DOMAIN nearbyEntities :
                                      /\ nearbyEntities[n].Kind = "creature"
                                      /\ nearbyEntities[n].ID = cs[k].ID}}}
    IN  [c EXCEPT !.Vision = [v \in 1..VisionSize |-> IF (v - 1) \in seen THEN Unit ELSE 0]]

\* NewCreature(x, y, creatureType); Age is left at its zero value
NewCreature(id, x, y) ==
    applyGenetics(
        [ ID |-> id, X |-> x, Y |-> y, VelocityX |-> 0, VelocityY |-> 0,
          Direction |-> 0, Vision |-> [v \in 1..VisionSize |-> 0],
          Age |-> 0, AgeStage |-> "adult", IsAsleep |-> FALSE, IsSick |-> FALSE,
          LastBreedTime |-> 0, EncouragedAt |-> 0 - 1,
          Updates |-> [ Metabolism |-> 0, Emotions |-> 0, Learning |-> 0, Language |-> 0 ],
          Metabolism |-> NewMetabolism, Emotions |-> NewEmotions,
          Movement |-> NewMovement, Output |-> UniformOutput(0) ],
        DefaultGenes)

\* Creature.updateAgeStage
updateAgeStage(c) ==
    [c EXCEPT !.AgeStage = IF c.Age < 5 * TicksPerMinute THEN "baby"
                           ELSE IF c.Age < 15 * TicksPerMinute THEN "child"
                           ELSE IF c.Age < 45 * TicksPerMinute THEN "adult"
                           ELSE "elder"]

\* Creature.updateHealthStatus
updateHealthStatus(c) ==
    IF c.Metabolism.Health < 30 * Unit \/ c.Metabolism.Hunger > 80 * Unit
    THEN [c EXCEPT !.IsSick = TRUE]
    ELSE IF c.Metabolism.Health > 50 * Unit
         THEN [c EXCEPT !.IsSick = FALSE]
         ELSE c

\* Creature.executeActions, on the branch without a target
executeActions(c) ==
    LET output == c.Output
        c1 == IF output.MoveLeft > Unit \div 2
              THEN [MoveLeft(c) EXCEPT !.Direction = Pi] ELSE c
        c2 == IF output.MoveRight > Unit \div 2
              THEN [MoveRight(c1) EXCEPT !.Direction = 0] ELSE c1
        c3 == IF output.Jump > Unit \div 2 THEN Jump(c2, c2.Y >= 400 * PosUnit) ELSE c2
        c4 == [c3 EXCEPT !.IsAsleep = output.Sleep > Unit \div 2]
        c5 == [c4 EXCEPT !.X = @ + c4.VelocityX, !.Y = @ + c4.VelocityY]
    IN  [c5 EXCEPT !.VelocityX = MulDiv(@, 9, 10)]

\* Creature.Update(world); processed is the output vector Brain.Process
\* leaves.  Updates is a history field, read by no method: the number of
\* Update calls Creature.Update has made on each subsystem.  The Learning
\* and the Language of a creature are not part of this record; the call
\* c.Learning.Update is recorded in Updates, and Creature.Update has no
\* call of c.Language.Update to record.
CreatureUpdate(c, processed) ==
    LET c1 == updateAgeStage([c EXCEPT !.Age = @ + 1])
        c2 == [c1 EXCEPT !.Metabolism = MetabolismUpdate(@, GetSpeed(c1.Movement)),
                         !.Updates.Metabolism = @ + 1]
        c3 == updateHealthStatus(c2)
        c4 == [c3 EXCEPT !.Output = processed]
        c5 == executeActions(c4)
        c6 == [c5 EXCEPT !.Emotions = EmotionsUpdate(@, c5.Metabolism, c5.Output),
                         !.Updates.Emotions = @ + 1]
    IN  [c6 EXCEPT !.Updates.Learning = @ + 1]

\* CanBreed without the cooldown term
CanBreedNoCooldown(c) ==
    /\ c.AgeStage = "adult"
    /\ c.Metabolism.Health > 70 * Unit
    /\ c.Metabolism.Energy > 50 * Unit

\* Creature.CanBreed
CanBreed(c) ==
    /\ c.AgeStage = "adult"
    /\ c.Metabolism.Health > 70 * Unit
    /\ c.Metabolism.Energy > 50 * Unit
    /\ c.Age - c.LastBreedTime > 10 * TicksPerMinute

\* IsDead with Health < 0 in place of Health <= 0
IsDeadBelowZero(c) == c.Metabolism.Health < 0 \/ c.Age > 60 * TicksPerMinute

\* Creature.IsDead
IsDead(c) == c.Metabolism.Health <= 0 \/ c.Age > 60 * TicksPerMinute

\* Breed(parent1, parent2): the baby and the two parents as Breed leaves them;
\* genes is what Combine returned for the baby
Breed(parent1, parent2, id, genes) ==
    LET born == [NewCreature(id, parent1.X, parent2.Y) EXCEPT !.Age = 0, !.AgeStage = "baby"]
        grown == applyGenetics(born, genes)
        fed == [grown EXCEPT !.Metabolism =
                   [NewMetabolism EXCEPT !.Health = 80 * Unit, !.Energy = 60 * Unit,
                                         !.Hunger = 50 * Unit]]
        baby == [fed EXCEPT !.Emotions =
                   [NewEmotions EXCEPT
                      !.BaseHappiness = MulDiv(parent1.Emotions.BaseHappiness
                                               + parent2.Emotions.BaseHappiness, 1, 2),
                      !.FearThreshold = MulDiv(parent1.Emotions.FearThreshold
                                               + parent2.Emotions.FearThreshold, 1, 2),
                      !.AngerThreshold = MulDiv(parent1.Emotions.AngerThreshold
                                                + parent2.Emotions.AngerThreshold, 1, 2)]]
    IN  [ baby |-> baby,
          parent1 |-> [parent1 EXCEPT !.LastBreedTime = parent1.Age],
          parent2 |-> [parent2 EXCEPT !.LastBreedTime = parent2.Age] ]

----------------------------------------------------------------------------
(* Food (src/objects/food.go), Toy (src/objects/toy.go)                     *)

(* An object is a record with Kind "food" or "toy".  Freshness and           *)
(* Durability are in hundredths (100 is 10000, and 0.01 is 1); the timers of *)
(* a toy are in milliseconds (0.016 is 16).  The toy is a ball.              *)

\* NewBaseObject(x, y)
NewBaseObject(id, x, y) == [ ID |-> id, X |-> x, Y |-> y, Remove |-> FALSE ]

\* NewFood(x, y, foodType), nutrition being getFoodNutrition(foodType)
NewFood(id, x, y, nutrition) ==
    [ ID |-> id, X |-> x, Y |-> y, Remove |-> FALSE, Kind |-> "food",
      Nutrition |-> nutrition, Freshness |-> 100 * 100, IsConsumed |-> FALSE ]

\* NewToy(x, y, ToyBall)
NewToy(id, x, y) ==
    [ ID |-> id, X |-> x, Y |-> y, Remove |-> FALSE, Kind |-> "toy",
      Durability |-> 100 * 100, IsActivated |-> FALSE, LastUsedTime |-> 0,
      AnimationTime |-> 0, TimesUsed |-> 0 ]

\* Food.Update
FoodUpdate(f) ==
    LET f1 == [f EXCEPT !.Freshness = @ - 1]
        f2 == IF f1.Freshness <= 0
              THEN [f1 EXCEPT !.Freshness = 0, !.Nutrition = MulDivNat(@, 1, 2)]
              ELSE f1
    IN  IF f2.IsConsumed \/ (f2.Freshness <= 0 /\ f2.Nutrition < Unit)
        THEN [f2 EXCEPT !.Remove = TRUE]
        ELSE f2

\* Food.Consume
Consume(f) == [f EXCEPT !.IsConsumed = TRUE, !.Remove = TRUE]

\* Food.GetNutrition: Nutrition * (0.5 + Freshness/200)
GetNutrition(f) == MulDivNat(f.Nutrition, 100 * 100 + f.Freshness, 2 * 100 * 100)

\* Toy.Update for a ball
ToyUpdate(t) ==
    LET t1 == [t EXCEPT !.AnimationTime = @ + 16]
        t2 == IF t1.IsActivated /\ t1.AnimationTime > 3000
              THEN [t1 EXCEPT !.IsActivated = FALSE, !.AnimationTime = 0]
              ELSE t1
        t3 == IF t2.IsActivated
              THEN [t2 EXCEPT !.Durability = @ - 1, !.Remove = (t2.Durability - 1 <= 0) \/ @]
              ELSE t2
    IN  [t3 EXCEPT !.LastUsedTime = @ + 16]

\* Toy.Interact(creature)
ToyInteract(t) ==
    IF ~t.IsActivated /\ t.LastUsedTime > 1000
    THEN [t EXCEPT !.IsActivated = TRUE, !.AnimationTime = 0, !.LastUsedTime = 0,
                   !.TimesUsed = @ + 1]
    ELSE t

\* Object.Update, by the dynamic type of the object
ObjectUpdate(o) == IF o.Kind = "food" THEN FoodUpdate(o) ELSE ToyUpdate(o)

\* BaseObject.ShouldRemove
ShouldRemove(o) == o.Remove

----------------------------------------------------------------------------
(* World and SpatialGrid (src/game/world.go)                                *)

\* LoadConfig: WorldWidth and WorldHeight, in pixels
WorldWidth == 4000
WorldHeight == 2000

\* NewWorld: the side of a grid cell, in pixels
CellSize == 100

\* World.Update: the radius of a creature's neighbor query, in pixels
VisionRange == 200

\* World.GetMaxCreatures
MaxCreatures == 20

\* World.Update: timeOfDay advances by 1/(60*60*10) per tick; ticks in a day
DayLength == 36000

\* World.Update: w.gravity * 0.016, as a velocity
Gravity == (98 * 16 * PosUnit) \div 10^4

\* World.Update: float64(w.height)*0.8 - 50
GroundLevel == ((WorldHeight * 8) \div 10 - 50) * PosUnit

\* What the grid holds for an entity: its kind and pointer identity
CreatureRef(c) == [ Kind |-> "creature", ID |-> c.ID ]
ObjectRef(o) == [ Kind |-> o.Kind, ID |-> o.ID ]

\* SpatialGrid.Add: the key of the cell of (x, y)
CellKey(x, y) ==
    TruncDiv(TruncDiv(y, PosUnit), CellSize) * 1000 + TruncDiv(TruncDiv(x, PosUnit), CellSize)

\* SpatialGrid.Clear
GridClear == <<>>

\* An Add that overwrites the cell's list instead of appending to it
GridAddReplacing(g, entity, x, y) ==
    LET key == CellKey(x, y)
    IN  [k \in (DOMAIN g) \cup {key} |-> IF k = key THEN <<entity>> ELSE g[k]]

\* SpatialGrid.Add(entity, x, y)
GridAdd(g, entity, x, y) ==
    LET key == CellKey(x, y)
    IN  IF key \in DOMAIN g
        THEN [g EXCEPT ![key] = Append(@, entity)]
        ELSE (key :> <<entity>>) @@ g

RECURSIVE GatherCells(_, _, _)
\* SpatialGrid.GetNearby: the loop over the cells, keys in visiting order
GatherCells(g, keys, n) ==
    IF n > Len(keys) THEN <<>>
    ELSE (IF keys[n] \in DOMAIN g THEN g[keys[n]] ELSE <<>>) \o GatherCells(g, keys, n + 1)

\* A GetNearby that visits the cells below the last column and the last row only
GetNearbyExclusive(g, x, y, radius) ==
    LET minCellX == TruncDiv(TruncDiv(x - radius, PosUnit), CellSize)
        maxCellX == TruncDiv(TruncDiv(x + radius, PosUnit), CellSize)
        minCellY == TruncDiv(TruncDiv(y - radius, PosUnit), CellSize)
        maxCellY == TruncDiv(TruncDiv(y + radius, PosUnit), CellSize)
        nx == maxCellX - minCellX
        ny == maxCellY - minCellY
        keys == [n \in 1..(nx * ny) |->
                    (minCellY + ((n - 1) \div nx)) * 1000 + (minCellX + ((n - 1) % nx))]
    IN  GatherCells(g, keys, 1)

\* SpatialGrid.GetNearby(x, y, radius)
GetNearby(g, x, y, radius) ==
    LET minCellX == TruncDiv(TruncDiv(x - radius, PosUnit), CellSize)
        maxCellX == TruncDiv(TruncDiv(x + radius, PosUnit), CellSize)
        minCellY == TruncDiv(TruncDiv(y - radius, PosUnit), CellSize)
        maxCellY == TruncDiv(TruncDiv(y + radius, PosUnit), CellSize)
        nx == maxCellX - minCellX + 1
        ny == maxCellY - minCellY + 1
        keys == [n \in 1..(nx * ny) |->
                    (minCellY + ((n - 1) \div nx)) * 1000 + (minCellX + ((n - 1) % nx))]
    IN  GatherCells(g, keys, 1)

\* World.Update: gravity, ground and bounds for one creature
settle(c) ==
    LET c1 == IF c.Y < GroundLevel
              THEN [c EXCEPT !.VelocityY = @ + Gravity]
              ELSE [c EXCEPT !.Y = GroundLevel, !.VelocityY = 0]
    IN  [c1 EXCEPT !.X = Clamp(@, 20 * PosUnit, (WorldWidth - 20) * PosUnit),
                   !.Y = Clamp(@, 20 * PosUnit, (WorldHeight - 20) * PosUnit)]

\* World.Update: the loop over the objects, last to first
UpdateObjects(os) ==
    LET updated == [k \in DOMAIN os |-> ObjectUpdate(os[k])]
    IN  SelectSeq(updated, LAMBDA o : ~ShouldRemove(o))

RECURSIVE interactWithObjects(_, _, _, _)
\* World.handleInteractions: the loop of creature c over the objects from the
\* k-th on.  eaten lists the Eat calls made, with the item each drew on, the
\* Hunger the creature had before the call and whether Brain.Reinforce(1.0)
\* was called after it.
interactWithObjects(c, os, k, eaten) ==
    IF k > Len(os) THEN [ creature |-> c, objects |-> os, eaten |-> eaten ]
    ELSE LET obj == os[k]
         IN  IF /\ obj.Kind = "food"
                /\ Within(c.X, c.Y, obj.X, obj.Y, 30)
                /\ c.Output.Eat > Unit \div 2
             THEN interactWithObjects(
                      [c EXCEPT !.Metabolism = MetabolismEat(@, GetNutrition(obj))],
                      [os EXCEPT ![k] = Consume(obj)], k + 1,
                      Append(eaten,
                             [ Eater |-> c.ID, Food |-> obj.ID,
                               HungerBefore |-> c.Metabolism.Hunger,
                               Reinforced |->
                                   MetabolismEat(c.Metabolism, GetNutrition(obj)).Hunger
                                       > 50 * Unit ]))
             ELSE IF /\ obj.Kind = "toy"
                     /\ Within(c.X, c.Y, obj.X, obj.Y, 40)
                     /\ c.Output.Play > Unit \div 2
                  THEN interactWithObjects(
                           [c EXCEPT !.Emotions = AdjustHappiness(@, 10 * Unit)],
                           [os EXCEPT ![k] = ToyInteract(obj)], k + 1, eaten)
                  ELSE interactWithObjects(c, os, k + 1, eaten)

RECURSIVE socialise(_, _, _)
\* World.handleInteractions: the loop of creature i over the other creatures
\* from the j-th on
socialise(cs, i, j) ==
    IF j > Len(cs) THEN cs
    ELSE IF j # i /\ Within(cs[i].X, cs[i].Y, cs[j].X, cs[j].Y, 50)
         THEN socialise([cs EXCEPT ![i].Emotions = AdjustHappiness(@, 2 * Unit),
                                   ![j].Emotions = AdjustHappiness(@, 2 * Unit)], i, j + 1)
         ELSE socialise(cs, i, j + 1)

RECURSIVE handleInteractions(_, _, _, _)
\* World.handleInteractions: the loop over the creatures from the i-th on
handleInteractions(cs, os, i, eaten) ==
    IF i > Len(cs) THEN [ creatures |-> cs, objects |-> os, eaten |-> eaten ]
    ELSE LET r == interactWithObjects(cs[i], os, 1, eaten)
         IN  handleInteractions(socialise([cs EXCEPT ![i] = r.creature], i, 1),
                                r.objects, i + 1, r.eaten)

\* World.handleBreeding: the test on a pair c1, c2
Willing(c1, c2) ==
    /\ CanBreed(c1)
    /\ CanBreed(c2)
    /\ Within(c1.X, c1.Y, c2.X, c2.Y, 60)
    /\ c1.Output.Breed > 70000
    /\ c2.Output.Breed > 70000

\* The pairs i < j that pass the test
BreedingPairs(cs) ==
    { p \in (DOMAIN cs) \X (DOMAIN cs) : p[1] < p[2] /\ Willing(cs[p[1]], cs[p[2]]) }

\* A breeding that charges the Energy cost to the first parent only
BreedPairChargingOne(cs, i, j, id, genes) ==
    LET b == Breed(cs[i], cs[j], id, genes)
        baby == [b.baby EXCEPT !.X = MulDiv(cs[i].X + cs[j].X, 1, 2),
                               !.Y = MulDiv(cs[i].Y + cs[j].Y, 1, 2)]
    IN  Append([cs EXCEPT ![i] = [b.parent1 EXCEPT !.Metabolism.Energy = @ - 30 * Unit],
                          ![j] = b.parent2],
               baby)

\* World.handleBreeding from "Create offspring" to the Energy charges
BreedPair(cs, i, j, id, genes) ==
    LET b == Breed(cs[i], cs[j], id, genes)
        baby == [b.baby EXCEPT !.X = MulDiv(cs[i].X + cs[j].X, 1, 2),
                               !.Y = MulDiv(cs[i].Y + cs[j].Y, 1, 2)]
    IN  Append([cs EXCEPT ![i] = [b.parent1 EXCEPT !.Metabolism.Energy = @ - 30 * Unit],
                          ![j] = [b.parent2 EXCEPT !.Metabolism.Energy = @ - 30 * Unit]],
               baby)

RECURSIVE breedOnward(_, _, _, _, _, _)
\* The loops of handleBreeding over the n creatures present at entry, from
\* the pair (i, j) on, without the return after a birth
breedOnward(cs, n, i, j, id, genes) ==
    IF i > n THEN cs
    ELSE IF j > Len(cs) THEN breedOnward(cs, n, i + 1, i + 2, id, genes)
    ELSE IF Willing(cs[i], cs[j])
         THEN breedOnward(BreedPair(cs, i, j, id, genes), n, i, j + 1, id + 1, genes)
         ELSE breedOnward(cs, n, i, j + 1, id, genes)

\* handleBreeding without "Only one breeding per update"
handleBreedingNoReturn(cs, id, genes) ==
    IF Len(cs) >= MaxCreatures THEN cs
    ELSE breedOnward(cs, Len(cs), 1, 2, id, genes)

\* A handleBreeding that gives up only above the maximum
handleBreedingAtMaximum(cs, id, genes) ==
    LET pairs == BreedingPairs(cs)
        first == CHOOSE p \in pairs :
                    \A q \in pairs : p[1] < q[1] \/ (p[1] = q[1] /\ p[2] <= q[2])
    IN  IF Len(cs) > MaxCreatures \/ pairs = {} THEN cs
        ELSE BreedPair(cs, first[1], first[2], id, genes)

\* World.handleBreeding: the first pair in loop order that passes breeds, and
\* the function returns
handleBreeding(cs, id, genes) ==
    LET pairs == BreedingPairs(cs)
        first == CHOOSE p \in pairs :
                    \A q \in pairs : p[1] < q[1] \/ (p[1] = q[1] /\ p[2] <= q[2])
    IN  IF Len(cs) >= MaxCreatures \/ pairs = {} THEN cs
        ELSE BreedPair(cs, first[1], first[2], id, genes)

RECURSIVE pruneFrom(_, _)
\* A removal loop that runs first to last and steps past the creature that
\* moved into a freed slot
pruneFrom(cs, i) ==
    IF i > Len(cs) THEN cs
    ELSE IF IsDead(cs[i])
         THEN pruneFrom(SubSeq(cs, 1, i - 1) \o SubSeq(cs, i + 1, Len(cs)), i + 1)
         ELSE pruneFrom(cs, i + 1)

pruneForward(cs) == pruneFrom(cs, 1)

\* World.Update: "Remove dead creatures", the loop running last to first
prune(cs) == SelectSeq(cs, LAMBDA c : ~IsDead(c))

----------------------------------------------------------------------------
(* WorldSpec: World.Update run tick after tick, one step per loop iteration *)

(* pc is the position inside World.Update ("idle" between two calls) and   *)
(* idx the index of the loop it is in.  queries, gridOps, tickStart, births, *)
(* eligible and meals are history variables: they record what the tick did   *)
(* and nothing of the program reads them.                                    *)

\* Number of World.Update calls explored
MaxTicks == 2

\* Output vectors Brain.Process can leave (a sigmoid per channel): every
\* channel low, and every channel over its threshold but MoveLeft
Resting == UniformOutput(30000)
Eager == [UniformOutput(90000) EXCEPT !.MoveLeft = 30000]
BrainOutputs == {Resting, Eager}

\* Genes Combine returns for a baby: those of two parents that hold the
\* default genes, when Mutate draws no mutation
ChildGenes == {DefaultGenes}

\* A norn as initializeWorld places the i-th one (i from 0), before any tick
StartingNorn(id, i) ==
    [NewCreature(id, ((WorldWidth \div 4) + i * 150) * PosUnit, GroundLevel) EXCEPT
        !.Metabolism.Hunger = (30 + i * 10) * Unit,
        !.Metabolism.Energy = (70 + i * 5) * Unit]

\* A norn of the starting population 20 minutes into the game, well fed,
\* standing at x pixels
Adult(id, x) ==
    [NewCreature(id, x * PosUnit, GroundLevel) EXCEPT
        !.Age = 20 * TicksPerMinute, !.AgeStage = "adult", !.Output = Resting]

\* An adult that has gone without food: Health is 0.1 (or 0.11) and falling
Starving(id, x, health) ==
    [Adult(id, x) EXCEPT !.Metabolism.Health = health, !.Metabolism.Hunger = 100 * Unit,
                         !.Metabolism.Glucose = 0, !.Metabolism.Energy = 50 * Unit,
                         !.IsSick = TRUE]

\* An elder one tick short of 60 minutes
Elder(id, x) ==
    [Adult(id, x) EXCEPT !.Age = 60 * TicksPerMinute - 1, !.AgeStage = "elder"]

\* An adult that bred 5 minutes ago and has eaten since
RecentParent(id, x) == [Adult(id, x) EXCEPT !.LastBreedTime = 15 * TicksPerMinute]

\* An adult that last ate some time ago
Peckish(id, x) == [Adult(id, x) EXCEPT !.Metabolism.Hunger = 55 * Unit]

\* A ball that was last played with two seconds ago
IdleBall(id, x, y) == [NewToy(id, x, y) EXCEPT !.LastUsedTime = 2000, !.AnimationTime = 2000]

\* The worlds the exploration starts from: the world initializeWorld leaves
\* (two norns, the ball and an apple of the garden), and three worlds of a
\* game under way: four fertile adults around an apple and a ball, a fertile
\* adult beside a recent parent, three creatures about to die, and a
\* moderately hungry adult beside an apple with an elder looking at it.
WorldConfigs ==
    { [ creatures |-> << StartingNorn(1, 0), StartingNorn(2, 1) >>,
        objects |-> << NewFood(3, 100 * PosUnit, GroundLevel + 20 * PosUnit, 25 * Unit),
                       NewToy(4, 1100 * PosUnit, GroundLevel + 20 * PosUnit) >>,
        timeOfDay |-> DayLength \div 2, built |-> FALSE ],
      [ creatures |-> << Adult(1, 1000), Adult(2, 1015), Adult(3, 1030), Adult(4, 1045) >>,
        objects |-> << NewFood(5, 1010 * PosUnit, GroundLevel - 5 * PosUnit, 25 * Unit),
                       IdleBall(6, 1030 * PosUnit, GroundLevel - 10 * PosUnit) >>,
        timeOfDay |-> DayLength, built |-> TRUE ],
      [ creatures |-> << Adult(1, 2000), RecentParent(2, 2020) >>,
        objects |-> << >>,
        timeOfDay |-> DayLength \div 4, built |-> TRUE ],
      [ creatures |-> << Starving(1, 3000, 10000), Starving(2, 3010, 11000), Elder(3, 3020) >>,
        objects |-> << NewFood(4, 3005 * PosUnit, GroundLevel - 5 * PosUnit, 25 * Unit) >>,
        timeOfDay |-> 1, built |-> TRUE ],
      [ creatures |-> << Peckish(1, 3520), Elder(2, 3500) >>,
        objects |-> << NewFood(3, 3525 * PosUnit, GroundLevel - 5 * PosUnit, 25 * Unit) >>,
        timeOfDay |-> DayLength \div 3, built |-> TRUE ] }

RECURSIVE AddObjects(_, _, _)
\* World.Update, lines 62-65: the loop from the n-th object on
AddObjects(g, os, n) ==
    IF n > Len(os) THEN g
    ELSE AddObjects(GridAdd(g, ObjectRef(os[n]), os[n].X, os[n].Y), os, n + 1)

RECURSIVE AddCreatures(_, _, _)
\* World.Update, lines 59-61: the loop from the n-th creature on
AddCreatures(g, cs, n) ==
    IF n > Len(cs) THEN g
    ELSE AddCreatures(GridAdd(g, CreatureRef(cs[n]), cs[n].X, cs[n].Y), cs, n + 1)

\* The grid the previous World.Update left, for a game under way
LeftGrid(w) ==
    IF w.built THEN AddObjects(AddCreatures(GridClear, w.creatures, 1), w.objects, 1)
    ELSE GridClear

WorldInit ==
    /\ \E w \in WorldConfigs :
          /\ creatures = w.creatures
          /\ objects = w.objects
          /\ timeOfDay = w.timeOfDay
          /\ nextID = Len(w.creatures) + Len(w.objects) + 1
          /\ tickStart = [ creatures |-> w.creatures, objects |-> w.objects ]
          /\ grid = LeftGrid(w)
    /\ pc = "idle" /\ idx = 1 /\ nearby = <<>> /\ ticks = 0
    /\ queries = 0 /\ gridOps = 0 /\ births = 0 /\ eligible = 0 /\ meals = <<>>
    /\ learn = <<>> /\ learnCalls = 0 /\ genome = <<>> /\ geneCalls = 0
    /\ brain = <<>> /\ brainCalls = 0
    /\ kin = <<>> /\ kinCalls = 0
    /\ spatial = <<>>
    /\ met = <<>> /\ metCalls = 0
    /\ lang = <<>> /\ langCalls = 0 /\ lastHeard = <<>>
    /\ emo = <<>> /\ emoCalls = 0

WorldOthersUnchanged == UNCHANGED <<metVars, langVars, emoVars, unitVars>>

\* World.Update, lines 52-58: the time of day, and grid.Clear()
WorldBeginUpdate ==
    /\ pc = "idle" /\ ticks < MaxTicks
    /\ timeOfDay' = IF timeOfDay + 1 > DayLength THEN timeOfDay + 1 - DayLength
                    ELSE timeOfDay + 1
    /\ grid' = GridClear
    /\ pc' = "addCreatures" /\ idx' = 1
    /\ queries' = 0 /\ gridOps' = 1 /\ births' = 0 /\ eligible' = 0
    /\ tickStart' = [ creatures |-> creatures, objects |-> objects ]
    /\ UNCHANGED <<creatures, objects, nearby, ticks, nextID, meals>>
    /\ WorldOthersUnchanged

\* World.Update, lines 59-61: one iteration
WorldGridAddCreature ==
    /\ pc = "addCreatures" /\ idx <= Len(creatures)
    /\ grid' = GridAdd(grid, CreatureRef(creatures[idx]), creatures[idx].X, creatures[idx].Y)
    /\ idx' = idx + 1 /\ gridOps' = gridOps + 1
    /\ UNCHANGED <<creatures, objects, timeOfDay, pc, nearby, ticks, nextID, queries,
                   tickStart, births, eligible, meals>>
    /\ WorldOthersUnchanged

\* World.Update, lines 62-65: one iteration
WorldGridAddObject ==
    /\ pc = "addObjects" /\ idx <= Len(objects)
    /\ grid' = GridAdd(grid, ObjectRef(objects[idx]), objects[idx].X, objects[idx].Y)
    /\ idx' = idx + 1 /\ gridOps' = gridOps + 1
    /\ UNCHANGED <<creatures, objects, timeOfDay, pc, nearby, ticks, nextID, queries,
                   tickStart, births, eligible, meals>>
    /\ WorldOthersUnchanged

\* World.Update, lines 68-86: one iteration.  processed is what Brain.Process
\* leaves in the output.
WorldUpdateCreature ==
    /\ pc = "creatures" /\ idx <= Len(creatures)
    /\ \E processed \in BrainOutputs :
          LET c == creatures[idx]
          IN  /\ nearby' = GetNearby(grid, c.X, c.Y, VisionRange * PosUnit)
              /\ creatures' = [creatures EXCEPT ![idx] =
                                  settle(CreatureUpdate(UpdateSensors(c, nearby', creatures),
                                                        processed))]
    /\ queries' = queries + 1
    /\ IF idx < Len(creatures) THEN idx' = idx + 1 /\ pc' = pc
                               ELSE idx' = 1 /\ pc' = "objects"
    /\ UNCHANGED <<objects, grid, timeOfDay, ticks, nextID, gridOps, tickStart,
                   births, eligible, meals>>
    /\ WorldOthersUnchanged

\* World.Update, lines 89-97: the whole loop
WorldUpdateObjects ==
    /\ pc = "objects"
    /\ objects' = UpdateObjects(objects)
    /\ pc' = "interactions"
    /\ UNCHANGED <<creatures, grid, timeOfDay, idx, nearby, ticks, nextID, queries, gridOps,
                   tickStart, births, eligible, meals>>
    /\ WorldOthersUnchanged

\* World.Update, line 100: handleInteractions()
WorldInteract ==
    /\ pc = "interactions"
    /\ LET r == handleInteractions(creatures, objects, 1, <<>>)
       IN  /\ creatures' = r.creatures
           /\ objects' = r.objects
           /\ meals' = meals \o r.eaten
    /\ pc' = "breeding"
    /\ UNCHANGED <<grid, timeOfDay, idx, nearby, ticks, nextID, queries, gridOps,
                   tickStart, births, eligible>>
    /\ WorldOthersUnchanged

\* An insertion loop of World.Update has run out: on to the next statement
\* (the loop over the creatures is left at once when there is none)
WorldLoopDone ==
    /\ \/ pc = "addCreatures" /\ idx > Len(creatures) /\ pc' = "addObjects"
       \/ pc = "addObjects" /\ idx > Len(objects) /\ Len(creatures) > 0 /\ pc' = "creatures"
       \/ pc = "addObjects" /\ idx > Len(objects) /\ Len(creatures) = 0 /\ pc' = "objects"
    /\ idx' = 1
    /\ UNCHANGED <<creatures, objects, grid, timeOfDay, nearby, ticks, nextID, queries,
                   gridOps, tickStart, births, eligible, meals>>
    /\ WorldOthersUnchanged

\* World.Update, line 103: handleBreeding()
WorldBreeding ==
    /\ pc = "breeding"
    /\ \E genes \in ChildGenes : creatures' = handleBreeding(creatures, nextID, genes)
    /\ nextID' = nextID + (Len(creatures') - Len(creatures))
    /\ births' = births + (Len(creatures') - Len(creatures))
    /\ eligible' = Cardinality(BreedingPairs(creatures))
    /\ pc' = "prune"
    /\ UNCHANGED <<objects, grid, timeOfDay, idx, nearby, ticks, queries, gridOps,
                   tickStart, meals>>
    /\ WorldOthersUnchanged

\* A World.Update that returns without removing the dead
WorldPruneSkipped ==
    /\ pc = "prune"
    /\ pc' = "idle" /\ ticks' = ticks + 1
    /\ UNCHANGED <<creatures, objects, grid, timeOfDay, idx, nearby, nextID, queries, gridOps,
                   tickStart, births, eligible, meals>>
    /\ WorldOthersUnchanged

\* World.Update, lines 106-110, and the return
WorldPrune ==
    /\ pc = "prune"
    /\ creatures' = prune(creatures)
    /\ pc' = "idle" /\ ticks' = ticks + 1
    /\ UNCHANGED <<objects, grid, timeOfDay, idx, nearby, nextID, queries, gridOps,
                   tickStart, births, eligible, meals>>
    /\ WorldOthersUnchanged

WorldNext ==
    \/ WorldBeginUpdate \/ WorldGridAddCreature \/ WorldGridAddObject \/ WorldLoopDone
    \/ WorldUpdateCreature \/ WorldUpdateObjects \/ WorldInteract \/ WorldBreeding
    \/ WorldPrune

WorldSpec == WorldInit /\ [][WorldNext]_vars

----------------------------------------------------------------------------
(* Claims about the world tick *)

\* C3: in one World.Update, breeding resolution adds at most one creature to
\* the world, however many pairs are fertile, within breeding radius and have
\* breed output above 0.7 at that moment.
C3_OneBirthPerTick == births <= 1

\* C3 witness: a birth in a tick whose breeding resolution found several
\* pairs passing the test, two of them sharing no creature
C3_Witness ==
    /\ pc = "prune"
    /\ births = 1
    /\ eligible >= 6

C4_Fertile(c) ==
    /\ c.AgeStage = "adult"
    /\ c.Metabolism.Health > 70 * Unit
    /\ c.Metabolism.Energy > 50 * Unit
    /\ c.Age - c.LastBreedTime >= 10 * TicksPerMinute

\* C4: a creature is added to the world by breeding only if, at that tick's
\* breeding resolution, two distinct creatures of the world (the two whose
\* breeding timers the step resets) both satisfy the fertility predicate
\* (adult, Health > 70, Energy > 50, at least 10 age units since their last
\* breeding), both have breed output above 0.7, and are less than 60 apart.
C4_BirthNeedsFertilePair ==
    [][Len(creatures') > Len(creatures) =>
          \E i, j \in DOMAIN creatures :
             /\ i # j
             /\ C4_Fertile(creatures[i]) /\ C4_Fertile(creatures[j])
             /\ creatures[i].Output.Breed > 70000 /\ creatures[j].Output.Breed > 70000
             /\ Within(creatures[i].X, creatures[i].Y, creatures[j].X, creatures[j].Y, 60)
             /\ creatures'[i].LastBreedTime = creatures[i].Age
             /\ creatures'[j].LastBreedTime = creatures[j].Age]_vars

\* C4 witness: a baby has just been added, its parents' timers reset
C4_Witness ==
    /\ pc = "prune"
    /\ births = 1
    /\ creatures[Len(creatures)].AgeStage = "baby"
    /\ \E i, j \in DOMAIN creatures :
          i # j /\ creatures[i].LastBreedTime = creatures[i].Age
                /\ creatures[j].LastBreedTime = creatures[j].Age

\* C5: a single food item transfers its nutrition to at most one creature:
\* once a creature has consumed it, no creature processed later in the same
\* pass, and no creature in any later tick, receives nutrition from it.
C5_OneEaterPerFood ==
    \A a, b \in DOMAIN meals : meals[a].Food = meals[b].Food => a = b

C6_Entries(cs, os) ==
    [k \in 1..Len(cs) |-> [ Ref |-> [ Kind |-> "creature", ID |-> cs[k].ID ],
                            Key |-> CellKey(cs[k].X, cs[k].Y) ]]
    \o [k \in 1..Len(os) |-> [ Ref |-> [ Kind |-> os[k].Kind, ID |-> os[k].ID ],
                               Key |-> CellKey(os[k].X, os[k].Y) ]]

\* Every creature and object of cs and os, in its cell, once, in loop order
C6_Rebuilt(cs, os) ==
    LET es == C6_Entries(cs, os)
    IN  [key \in {es[k].Key : k \in DOMAIN es} |->
            LET here == SelectSeq(es, LAMBDA e : e.Key = key)
            IN  [n \in 1..Len(here) |-> here[n].Ref]]

\* C6: in every World.Update the grid is cleared and every creature and
\* object currently in the world is re-inserted before the first neighbor
\* query of that tick, and the grid is neither cleared nor inserted into
\* between the first and the last neighbor query of the tick: from the first
\* query on, the tick has made one Clear and one Add per entity, and the grid
\* is the one built from the world as the tick found it.
C6_GridRebuiltBeforeQueries ==
    queries > 0 =>
        /\ gridOps = 1 + Len(tickStart.creatures) + Len(tickStart.objects)
        /\ grid = C6_Rebuilt(tickStart.creatures, tickStart.objects)

\* C6 witness: the last query of a second tick has been made, over a world
\* to which the first tick added a baby, and it returned every creature
C6_Witness ==
    /\ ticks = 1
    /\ pc = "objects"
    /\ queries = Len(creatures)
    /\ Len(tickStart.creatures) = 5
    /\ Len(nearby) >= 5

C7_Dead(c) == c.Metabolism.Health <= 0 \/ c.Age > 60 * TicksPerMinute

\* C7: when World.Update returns, no creature remaining in the world
\* satisfies the death predicate (Health <= 0 or Age beyond the lifespan of
\* 60), and a creature that does not satisfy it is never removed.
C7_DeadAndOnlyDeadRemoved ==
    /\ [](pc = "idle" /\ ticks > 0 =>
             \A k \in DOMAIN creatures : ~C7_Dead(creatures[k]))
    /\ [][\A k \in DOMAIN creatures :
             ~C7_Dead(creatures[k]) =>
                 \E j \in DOMAIN creatures' : creatures'[j].ID = creatures[k].ID]_vars

\* C7 witness: a World.Update has returned after removing a creature and
\* keeping others
C7_Witness ==
    /\ pc = "idle"
    /\ ticks > 0
    /\ Len(creatures) < Len(tickStart.creatures) + births
    /\ Len(creatures) > 0

\* C8: IsDead is true exactly when Health <= 0 or Age exceeds the lifespan:
\* a creature within its lifespan whose Health is exactly 0 is reported
\* dead, and one whose Health is any value above 0 is not.
C8_IsDeadExact ==
    \A k \in DOMAIN creatures :
        LET c == creatures[k]
        IN  /\ IsDead(c) <=> (c.Metabolism.Health <= 0 \/ c.Age > 60 * TicksPerMinute)
            /\ (c.Age <= 60 * TicksPerMinute /\ c.Metabolism.Health = 0) => IsDead(c)
            /\ (c.Age <= 60 * TicksPerMinute /\ c.Metabolism.Health > 0) => ~IsDead(c)

\* C8 witness: the death check is about to run over a creature within its
\* lifespan at Health exactly 0, one at Health 0.01, and one aged exactly 60
C8_Witness ==
    /\ pc = "prune"
    /\ \E k \in DOMAIN creatures :
          creatures[k].Metabolism.Health = 0 /\ creatures[k].Age <= 60 * TicksPerMinute
    /\ \E k \in DOMAIN creatures :
          creatures[k].Metabolism.Health = 1000 /\ creatures[k].Age <= 60 * TicksPerMinute
    /\ \E k \in DOMAIN creatures :
          creatures[k].Age = 60 * TicksPerMinute /\ creatures[k].Metabolism.Health > 0

C9_Stage(age) ==
    IF age < 5 * TicksPerMinute THEN "baby"
    ELSE IF age < 15 * TicksPerMinute THEN "child"
    ELSE IF age < 45 * TicksPerMinute THEN "adult"
    ELSE "elder"

\* C9: in every reachable creature state (freshly built by NewCreature or by
\* Breed, and after any number of Update calls) AgeStage equals the stage
\* determined by Age alone through the thresholds (Age < 5 baby, Age < 15
\* child, Age < 45 adult, otherwise elder).
C9_StageFollowsAge ==
    \A k \in DOMAIN creatures : creatures[k].AgeStage = C9_Stage(creatures[k].Age)

----------------------------------------------------------------------------
(* Learning (src/creature/learning.go) *)

(* Outcome, Importance, skill levels, Focus, AttentionSpan and association *)
(* strengths are in Unit.  An Experience keeps its Situation, Action,      *)
(* Outcome and Importance; Timestamp is always 0 in the source.            *)

MemoryCapacity == 100

OutputEat == 3
OutputSpeak == 6

NewLearning ==
    [ Experiences |-> <<>>, Associations |-> <<>>,
      Skills |-> [ walking |-> 10 * Unit, eating |-> 20 * Unit, speaking |-> 5 * Unit,
                   playing |-> 15 * Unit, survival |-> 10 * Unit, social |-> 10 * Unit ],
      AttentionSpan |-> 50 * Unit, Focus |-> 50 * Unit, Stored |-> 0 ]

\* s without its i-th element
RemoveAt(s, i) == SubSeq(s, 1, i - 1) \o SubSeq(s, i + 1, Len(s))

\* An addExperience that evicts the oldest record on overflow
addExperienceOldestEvicted(l, exp) ==
    LET appended == Append(l.Experiences, exp)
    IN  [l EXCEPT !.Experiences = IF Len(appended) > MemoryCapacity THEN Tail(appended)
                                  ELSE appended,
                  !.Stored = @ + 1]

\* Learning.addExperience: on overflow the first record of least Importance
\* among the first len/2 is removed.  Stored is a history field, read by no
\* method: the number of addExperience calls made.
addExperience(l, exp) ==
    LET appended == Append(l.Experiences, exp)
        half == Len(appended) \div 2
        leastImportant ==
            CHOOSE i \in 1..half :
                /\ \A k \in 1..half : appended[i].Importance <= appended[k].Importance
                /\ \A k \in 1..(i - 1) : appended[k].Importance > appended[i].Importance
    IN  [l EXCEPT !.Experiences = IF Len(appended) > MemoryCapacity
                                  THEN RemoveAt(appended, leastImportant)
                                  ELSE appended,
                  !.Stored = @ + 1]

\* Learning.improveSkill(skill, amount)
improveSkill(l, skill, amount) ==
    LET current == l.Skills[skill]
        improvementRate == MulDiv(amount, (100 * Unit - current) \div 1000, 10^4)
    IN  [l EXCEPT !.Skills[skill] = Min(100 * Unit, current + improvementRate)]

\* Learning.updateSkillFromAction(action, outcome), actions by output index
updateSkillFromAction(l, action, outcome) ==
    LET skillUpdate == MulDiv(outcome, 1, 10)
        l1 == IF action \in {0, 1, 2} THEN improveSkill(l, "walking", skillUpdate)
              ELSE IF action = OutputEat THEN improveSkill(l, "eating", skillUpdate)
              ELSE IF action = 5 THEN improveSkill(l, "playing", skillUpdate)
              ELSE IF action = OutputSpeak
                   THEN improveSkill(improveSkill(l, "speaking", skillUpdate),
                                     "social", MulDiv(skillUpdate, 5, 10))
              ELSE IF action = 7 THEN improveSkill(l, "social", skillUpdate)
              ELSE l
    IN  IF outcome > 0 THEN improveSkill(l1, "survival", MulDiv(skillUpdate, 3, 10)) ELSE l1

\* Learning.LearnFromExperience(situation, action, outcome)
LearnFromExperience(l, situation, action, outcome) ==
    LET exp == [ Situation |-> situation, Action |-> action, Outcome |-> outcome,
                 Importance |-> Abs(outcome) ]
        l1 == addExperience(l, exp)
    IN  IF l1.Focus > 30 * Unit THEN updateSkillFromAction(l1, action, outcome) ELSE l1

\* Learning.LearnAssociation(stimulus, response, success), key being
\* stimulus + "->" + response
LearnAssociation(l, key, success) ==
    LET strength == IF success THEN Unit \div 10 ELSE 0 - (Unit \div 10)
    IN  IF key \in DOMAIN l.Associations
        THEN [l EXCEPT !.Associations[key] =
                 [ Strength |-> Clamp(@.Strength + MulDiv(strength, 1, 10), 0 - Unit, Unit),
                   LastUsed |-> 0 ]]
        ELSE [l EXCEPT !.Associations =
                 (key :> [ Strength |-> strength, LastUsed |-> 0 ]) @@ @]

\* A forget that tests the strength and the counter it found, before the decay
forgetTestingFirst(l) ==
    LET decayed == [key \in DOMAIN l.Associations |->
                       [ Strength |-> MulDiv(l.Associations[key].Strength, 999, 1000),
                         LastUsed |-> l.Associations[key].LastUsed + 1 ]]
        kept == {key \in DOMAIN decayed :
                    ~(Abs(l.Associations[key].Strength) < Unit \div 100
                      \/ l.Associations[key].LastUsed > 1000)}
    IN  [l EXCEPT !.Associations = [key \in kept |-> decayed[key]],
                  !.Experiences = [i \in DOMAIN @ |->
                                      [@[i] EXCEPT !.Importance = MulDiv(@, 999, 1000)]]]

\* Learning.forget, ForgetRate being 0.001
forget(l) ==
    LET decayed == [key \in DOMAIN l.Associations |->
                       [ Strength |-> MulDiv(l.Associations[key].Strength, 999, 1000),
                         LastUsed |-> l.Associations[key].LastUsed + 1 ]]
        kept == {key \in DOMAIN decayed :
                    ~(Abs(decayed[key].Strength) < Unit \div 100 \/ decayed[key].LastUsed > 1000)}
    IN  [l EXCEPT !.Associations = [key \in kept |-> decayed[key]],
                  !.Experiences = [i \in DOMAIN @ |->
                                      [@[i] EXCEPT !.Importance = MulDiv(@, 999, 1000)]]]

\* An updateAttention that lets only the attention span wander
updateAttentionKeepingFocus(l) ==
    [l EXCEPT !.AttentionSpan = Pct(@ - Unit \div 10)]

\* Learning.updateAttention
updateAttention(l) ==
    [l EXCEPT !.AttentionSpan = Pct(@ - Unit \div 10), !.Focus = Pct(@ - Unit \div 20)]

\* Learning.consolidateMemories
consolidateMemories(l) ==
    IF l.Focus > 70 * Unit
    THEN [l EXCEPT !.Experiences =
             [i \in DOMAIN @ |->
                 IF @[i].Importance > Unit \div 2
                 THEN [@[i] EXCEPT !.Importance = MulDiv(@, 101, 100)]
                 ELSE @[i]]]
    ELSE l

\* Learning.Update
LearningUpdate(l) == consolidateMemories(updateAttention(forget(l)))

\* Learning.CanLearn
CanLearn(l) == l.Focus > 20 * Unit /\ l.AttentionSpan > 10 * Unit

\* Learning.PayAttention(amount)
PayAttention(l, amount) ==
    [l EXCEPT !.Focus = Min(100 * Unit, @ + amount),
              !.AttentionSpan = Min(100 * Unit, @ + MulDiv(amount, 5, 10))]

\* math.Sqrt on the naturals, rounded down (Newton's iteration)
RECURSIVE SqrtFrom(_, _)
SqrtFrom(n, r) ==
    LET next == (r + n \div r) \div 2
    IN  IF next >= r THEN r ELSE SqrtFrom(n, next)

Sqrt(n) == IF n = 0 THEN 0 ELSE SqrtFrom(n, n)

RECURSIVE DotProduct(_, _, _)
DotProduct(a, b, i) ==
    IF i = 0 THEN 0
    ELSE DotProduct(a, b, i - 1) + (a[i] \div 100) * (b[i] \div 100)

\* Learning.calculateSimilarity: the cosine of the two situations, in
\* thousandths; the components are taken in thousandths as well
calculateSimilarity(situation1, situation2) ==
    IF Len(situation1) # Len(situation2) THEN 0
    ELSE LET n == Len(situation1)
             dotProduct == DotProduct(situation1, situation2, n)
             magnitude1 == DotProduct(situation1, situation1, n)
             magnitude2 == DotProduct(situation2, situation2, n)
         IN  IF magnitude1 = 0 \/ magnitude2 = 0 THEN 0
             ELSE MulDiv(dotProduct, 1000, Sqrt(magnitude1) * Sqrt(magnitude2))

\* The similarity weighted by the importance of the i-th experience, in Unit
WeightedSimilarity(l, currentSituation, i) ==
    MulDiv(l.Experiences[i].Importance,
           calculateSimilarity(currentSituation, l.Experiences[i].Situation), 1000)

\* Learning.RecallSimilarExperience: the index of the experience returned,
\* 0 for nil
RecallSimilarExperience(l, currentSituation) ==
    LET n == Len(l.Experiences)
        better == {i \in 1..n : WeightedSimilarity(l, currentSituation, i) > 0}
        best == CHOOSE i \in better :
                    /\ \A k \in better : WeightedSimilarity(l, currentSituation, k)
                                             <= WeightedSimilarity(l, currentSituation, i)
                    /\ \A k \in 1..(i - 1) : WeightedSimilarity(l, currentSituation, k)
                                                < WeightedSimilarity(l, currentSituation, i)
    IN  IF better = {} THEN 0
        ELSE IF WeightedSimilarity(l, currentSituation, best) > 7 * (Unit \div 10)
             THEN best
             ELSE 0

----------------------------------------------------------------------------
(* LearningSpec: one Learning driven through its public methods *)

\* Number of calls explored
MaxLearnCalls == 3

Situations == { <<Unit, 0>>, <<0, Unit>> }
LearnActions == {OutputEat, OutputSpeak}
Outcomes == {0 - 60 * Unit, 0, Unit \div 2, 3 * Unit}
AssociationKeys == {"food->eat"}

\* Outcome of the k-th experience of a memory filled earlier: the older
\* records of mixed importance, the newer ones of none
EarlierOutcome(k) == IF k <= 50 THEN (((k * 7) % 11) + 1) * Unit ELSE 0

\* NewLearning() after 401 Update calls (Focus 29.95, AttentionSpan 9.9) and
\* then n LearnFromExperience calls, which at that Focus leave the skills
LearningAfter(n) ==
    [NewLearning EXCEPT
        !.Focus = 50 * Unit - 401 * (Unit \div 20),
        !.AttentionSpan = 50 * Unit - 401 * (Unit \div 10),
        !.Stored = n,
        !.Experiences = [k \in 1..n |->
                            [ Situation |-> <<Unit, 0>>, Action |-> OutputEat,
                              Outcome |-> EarlierOutcome(k),
                              Importance |-> EarlierOutcome(k) ]]]

LearnInit ==
    /\ learn \in {NewLearning, LearningAfter(MemoryCapacity - 1), LearningAfter(MemoryCapacity)}
    /\ learnCalls = 0
    /\ met = <<>> /\ metCalls = 0
    /\ lang = <<>> /\ langCalls = 0 /\ lastHeard = <<>>
    /\ emo = <<>> /\ emoCalls = 0
    /\ creatures = <<>> /\ objects = <<>> /\ grid = <<>> /\ timeOfDay = 0
    /\ pc = "idle" /\ idx = 1 /\ nearby = <<>> /\ nextID = 1 /\ ticks = 0
    /\ queries = 0 /\ gridOps = 0 /\ tickStart = <<>> /\ births = 0
    /\ eligible = 0 /\ meals = <<>>
    /\ genome = <<>> /\ geneCalls = 0
    /\ brain = <<>> /\ brainCalls = 0
    /\ kin = <<>> /\ kinCalls = 0
    /\ spatial = <<>>

LearnOthersUnchanged == UNCHANGED <<metVars, langVars, emoVars, worldVars, geneVars, brainVars, kinVars, spatialVars>>

LearnLearnFromExperience ==
    /\ learnCalls < MaxLearnCalls
    /\ \E situation \in Situations, action \in LearnActions, outcome \in Outcomes :
          learn' = LearnFromExperience(learn, situation, action, outcome)
    /\ learnCalls' = learnCalls + 1
    /\ LearnOthersUnchanged

LearnLearnAssociation ==
    /\ learnCalls < MaxLearnCalls
    /\ \E key \in AssociationKeys, success \in BOOLEAN :
          learn' = LearnAssociation(learn, key, success)
    /\ learnCalls' = learnCalls + 1
    /\ LearnOthersUnchanged

LearnUpdate ==
    /\ learnCalls < MaxLearnCalls
    /\ learn' = LearningUpdate(learn)
    /\ learnCalls' = learnCalls + 1
    /\ LearnOthersUnchanged

LearnPayAttention ==
    /\ learnCalls < MaxLearnCalls
    /\ learn' = PayAttention(learn, 30 * Unit)
    /\ learnCalls' = learnCalls + 1
    /\ LearnOthersUnchanged

LearnNext == LearnLearnFromExperience \/ LearnLearnAssociation \/ LearnUpdate \/ LearnPayAttention

LearningSpec == LearnInit /\ [][LearnNext]_vars

----------------------------------------------------------------------------
(* Claims about Learning *)

\* C12: after any sequence of LearnFromExperience calls the number of stored
\* experiences never exceeds MemoryCapacity (100); when an insertion
\* overflows the buffer exactly one record is evicted, and it has minimum
\* importance among the older half of the buffer (the first half of the
\* buffer with the new record appended).
C12_EvictsLeastImportantOfOlderHalf ==
    /\ [](Len(learn.Experiences) <= MemoryCapacity)
    /\ [][learn'.Stored = learn.Stored + 1 =>
             LET appended == Append(learn.Experiences,
                                    learn'.Experiences[Len(learn'.Experiences)])
                 half == Len(appended) \div 2
             IN  IF Len(learn.Experiences) < MemoryCapacity
                 THEN learn'.Experiences = appended
                 ELSE \E i \in 1..half :
                         /\ learn'.Experiences = RemoveAt(appended, i)
                         /\ \A k \in 1..half :
                               appended[i].Importance <= appended[k].Importance]_vars

\* C12 witness: an insertion into a full memory has evicted a record that was
\* not the oldest, while records of lower importance stay in the newer half
C12_Witness ==
    /\ learnCalls > 0
    /\ Len(learn.Experiences) = MemoryCapacity
    /\ learn.Experiences[1].Importance = 8 * Unit
    /\ learn.Experiences[11].Importance = 8 * Unit
    /\ learn.Experiences[MemoryCapacity].Importance \in {2 * Unit, 3 * Unit}
    /\ learn.Experiences[60].Importance = 0

----------------------------------------------------------------------------
(* Language: the accessors, and a taught word left unused *)

\* Language.KnowsWord(word)
KnowsWord(l, raw) ==
    LET word == Normalize(raw)
    IN  word \in DOMAIN l.Vocabulary /\ l.Vocabulary[word].Confidence > 30000

\* Language.GetWordConfidence(word)
GetWordConfidence(l, raw) ==
    LET word == Normalize(raw)
    IN  IF word \in DOMAIN l.Vocabulary THEN l.Vocabulary[word].Confidence ELSE 0

\* C13: immediately after TeachWord(w, t) for a non-empty word w,
\* KnowsWord(w) returns true and GetWordConfidence(w) is 0.8, for every prior
\* vocabulary state of the creature.
C13_TaughtWordKnown ==
    \A raw \in RawWords, objectType \in ObjectTypes :
        Normalize(raw) # EmptyWord =>
            \A taught \in LanguageTeachWord(lang, raw, objectType) :
                KnowsWord(taught, raw) /\ GetWordConfidence(taught, raw) = 80000

\* Number of Language.Update calls made after the word was taught
DisuseTicks == 601

\* The word "ball"
Ball == [base |-> 1, form |-> "plain"]

\* ForgettingSpec: TeachWord("ball", "toy") on a new Language or on one that
\* knows 49 words, then Language.Update call after call
ForgettingInit ==
    /\ \E l \in {NewLanguage, LanguageAfter(VocabularyLimit - 1)} :
          lang \in LanguageTeachWord(l, Ball, "toy")
    /\ langCalls = 0 /\ lastHeard = <<>>
    /\ met = <<>> /\ metCalls = 0
    /\ emo = <<>> /\ emoCalls = 0
    /\ creatures = <<>> /\ objects = <<>> /\ grid = <<>> /\ timeOfDay = 0
    /\ pc = "idle" /\ idx = 1 /\ nearby = <<>> /\ nextID = 1 /\ ticks = 0
    /\ queries = 0 /\ gridOps = 0 /\ tickStart = <<>> /\ births = 0
    /\ eligible = 0 /\ meals = <<>>
    /\ learn = <<>> /\ learnCalls = 0 /\ genome = <<>> /\ geneCalls = 0
    /\ brain = <<>> /\ brainCalls = 0
    /\ kin = <<>> /\ kinCalls = 0
    /\ spatial = <<>>

ForgettingUpdate ==
    /\ langCalls < DisuseTicks
    /\ lang' = LanguageUpdate(lang)
    /\ langCalls' = langCalls + 1
    /\ UNCHANGED lastHeard
    /\ LangOthersUnchanged

ForgettingSpec == ForgettingInit /\ [][ForgettingUpdate]_vars

\* C14: after TeachWord("ball", "toy") followed by 601 Language.Update calls
\* with no HearWord, TeachWord or Speak of that word in between, the word's
\* confidence has decayed below 0.1 and KnowsWord("ball") returns false.
C14_TaughtWordForgotten ==
    langCalls >= DisuseTicks =>
        GetWordConfidence(lang, Ball) < 10000 /\ ~KnowsWord(lang, Ball)

----------------------------------------------------------------------------
(* PlayingSpec: Game.updatePlaying, where handleInput runs before each      *)
(* World.Update and the B key calls EncourageBreeding on the selected norn  *)

\* Creature.EncourageBreeding.  EncouragedAt is a history field, read by no
\* method: the number of World.Update calls that had returned when the call
\* last found the creature fertile (-1: never).
EncourageBreeding(c, now) ==
    IF CanBreed(c)
    THEN [c EXCEPT !.Output.Breed = 90000,
                   !.Emotions = AdjustHappiness(@, 20 * Unit),
                   !.EncouragedAt = now]
    ELSE c

\* Game.handleInput, the B key (just pressed: once per frame at most) with
\* the k-th creature selected
WorldEncourageBreeding ==
    /\ pc = "idle" /\ ticks < MaxTicks
    /\ \A k \in DOMAIN creatures : creatures[k].EncouragedAt # ticks
    /\ \E k \in DOMAIN creatures :
          creatures' = [creatures EXCEPT ![k] = EncourageBreeding(@, ticks)]
    /\ UNCHANGED <<objects, grid, timeOfDay, pc, idx, nearby, nextID, ticks, queries,
                   gridOps, tickStart, births, eligible, meals>>
    /\ WorldOthersUnchanged

PlayingNext == WorldEncourageBreeding \/ WorldNext

PlayingSpec == WorldInit /\ [][PlayingNext]_vars

\* C15: if EncourageBreeding is called on a creature that satisfies the
\* fertility predicate, then at the breeding resolution of the next world
\* tick that creature's breed output is above the 0.7 breeding threshold; if
\* the creature does not satisfy the predicate, the call changes neither its
\* brain output nor its emotions.
C15_EncouragedWillingAtBreeding ==
    /\ pc = "breeding" =>
          \A k \in DOMAIN creatures :
              creatures[k].EncouragedAt = ticks => creatures[k].Output.Breed > 70000
    /\ \A k \in DOMAIN creatures :
          ~CanBreed(creatures[k]) =>
              LET after == EncourageBreeding(creatures[k], ticks)
              IN  after.Output = creatures[k].Output /\ after.Emotions = creatures[k].Emotions

----------------------------------------------------------------------------
(* Genetics (src/unnamed/part_005) *)

(* A Genetics holds two Go maps, which are references: heap is the sequence *)
(* of all maps allocated, and a Genetics value holds the indices of its     *)
(* Genes and DominantGenes maps in it, next to its colours and pattern.     *)
(* Gene values and colours are in Unit.  Origin and Draw are history        *)
(* fields, read by no method: the function that built the value and the     *)
(* random draws its mutation pass made.                                     *)

GeneNames ==
    { "metabolism_rate", "movement_speed", "learning_rate", "lifespan", "fertility",
      "strength", "happiness_bias", "fear_threshold", "anger_threshold", "curiosity",
      "sociability", "aggression" }

\* The random draws of one Mutate call: the gene whose rand.Float64() fell
\* under mutationRate ("none": no gene) with its change and whether its
\* dominance flips, the change of the colours (0: not mutated) and the
\* pattern drawn ("keep": not mutated)
NoMutation == [ gene |-> "none", change |-> 0, flip |-> FALSE, colour |-> 0, pattern |-> "keep" ]

MutationDraws ==
    { NoMutation,
      [ gene |-> "movement_speed", change |-> 9000, flip |-> FALSE, colour |-> 0,
        pattern |-> "keep" ],
      [ gene |-> "lifespan", change |-> 0 - 9000, flip |-> TRUE, colour |-> 0 - 9000,
        pattern |-> "striped" ] }

\* Mutate's new value of a gene, left unclamped
MutatedValueUnclamped(value, change) == value + change

\* Genetics.Mutate: utils.Clamp(g.Genes[gene]+change, 0, 1)
MutatedValue(value, change) == Clamp(value + change, 0, Unit)

\* NewGenetics(), dominant being the genes whose rand.Float64() exceeded 0.5:
\* the heap with the two new maps, and the value
NewGenetics(heap, dominant) ==
    [ heap |-> heap \o << [g \in GeneNames |-> Unit \div 2],
                          [g \in GeneNames |-> g \in dominant] >>,
      obj |-> [ Genes |-> Len(heap) + 1, DominantGenes |-> Len(heap) + 2,
                ColorR |-> Unit \div 2, ColorG |-> (7 * Unit) \div 10,
                ColorB |-> (3 * Unit) \div 10, Pattern |-> "solid",
                Origin |-> "NewGenetics", Draw |-> NoMutation ] ]

\* A map read with a default for a missing key
MapGet(m, key, default) == IF key \in DOMAIN m THEN m[key] ELSE default

\* Genetics.Mutate with the draws d; the maps are changed in place
Mutate(heap, g, d) ==
    LET genes == heap[g.Genes]
        doms == heap[g.DominantGenes]
        hit == d.gene \in DOMAIN genes
        genes1 == IF hit THEN [genes EXCEPT ![d.gene] = MutatedValue(@, d.change)] ELSE genes
        doms1 == IF hit /\ d.flip
                 THEN (d.gene :> ~MapGet(doms, d.gene, FALSE)) @@ doms
                 ELSE doms
        coloured == IF d.colour # 0
                    THEN [g EXCEPT !.ColorR = Clamp(@ + d.colour, 0, Unit),
                                   !.ColorG = Clamp(@ + d.colour, 0, Unit),
                                   !.ColorB = Clamp(@ + d.colour, 0, Unit)]
                    ELSE g
    IN  [ heap |-> [heap EXCEPT ![g.Genes] = genes1, ![g.DominantGenes] = doms1],
          obj |-> [coloured EXCEPT !.Pattern = IF d.pattern = "keep" THEN @ ELSE d.pattern,
                                   !.Draw = d] ]

\* Combine up to the mutation pass.  coin is the outcome of the rand.Float64()
\* draws: whether a gene dominant in one parent only is dominant in the
\* child, and whether the pattern is parent1's.
CombineUnmutated(heap, parent1, parent2, coin) ==
    LET child == NewGenetics(heap, {})
        g1 == heap[parent1.Genes]
        g2 == heap[parent2.Genes]
        d1 == heap[parent1.DominantGenes]
        d2 == heap[parent2.DominantGenes]
        p1Dominant(gene) == MapGet(d1, gene, FALSE)
        p2Dominant(gene) == MapGet(d2, gene, FALSE)
        value(gene) ==
            IF p1Dominant(gene) = p2Dominant(gene)
            THEN (g1[gene] + MapGet(g2, gene, 0)) \div 2
            ELSE IF p1Dominant(gene) THEN g1[gene] ELSE MapGet(g2, gene, 0)
        dominance(gene) ==
            IF p1Dominant(gene) /\ p2Dominant(gene) THEN TRUE
            ELSE IF p1Dominant(gene) \/ p2Dominant(gene) THEN coin
            ELSE FALSE
        keys == DOMAIN g1 \cup GeneNames
    IN  [ heap |-> [child.heap EXCEPT
                       ![child.obj.Genes] =
                           [gene \in keys |-> IF gene \in DOMAIN g1 THEN value(gene) ELSE @[gene]],
                       ![child.obj.DominantGenes] =
                           [gene \in keys |-> IF gene \in DOMAIN g1 THEN dominance(gene)
                                              ELSE @[gene]]],
          obj |-> [child.obj EXCEPT
                      !.ColorR = (parent1.ColorR + parent2.ColorR) \div 2,
                      !.ColorG = (parent1.ColorG + parent2.ColorG) \div 2,
                      !.ColorB = (parent1.ColorB + parent2.ColorB) \div 2,
                      !.Pattern = IF coin THEN parent1.Pattern ELSE parent2.Pattern,
                      !.Origin = "Combine"] ]

\* Combine(parent1, parent2)
Combine(heap, parent1, parent2, coin, d) ==
    LET child == CombineUnmutated(heap, parent1, parent2, coin)
    IN  Mutate(child.heap, child.obj, d)

\* A Clone that hands out the maps of the original
CloneSharingMaps(heap, g) == [ heap |-> heap, obj |-> [g EXCEPT !.Origin = "Clone"] ]

\* Genetics.Clone
Clone(heap, g) ==
    LET clone == NewGenetics(heap, {})
        genes == heap[g.Genes]
        doms == heap[g.DominantGenes]
    IN  [ heap |-> [clone.heap EXCEPT
                       ![clone.obj.Genes] = genes @@ @,
                       ![clone.obj.DominantGenes] =
                           [gene \in DOMAIN genes |-> MapGet(doms, gene, FALSE)] @@ @],
          obj |-> [clone.obj EXCEPT !.ColorR = g.ColorR, !.ColorG = g.ColorG,
                                    !.ColorB = g.ColorB, !.Pattern = g.Pattern,
                                    !.Origin = "Clone"] ]

\* Genetics.SetTrait(trait, value): the heap it leaves
SetTrait(heap, g, trait, value) ==
    [heap EXCEPT ![g.Genes] = (trait :> Clamp(value, 0, Unit)) @@ @]

RECURSIVE SumOfDiffs(_, _, _)
\* Similarity's loop over the keys of g.Genes found in other.Genes
SumOfDiffs(genes, others, keys) ==
    IF keys = {} THEN 0
    ELSE LET gene == CHOOSE k \in keys : TRUE
         IN  Abs(genes[gene] - others[gene]) + SumOfDiffs(genes, others, keys \ {gene})

\* Genetics.Similarity(other), other not nil
Similarity(heap, g, other) ==
    LET genes == heap[g.Genes]
        others == heap[other.Genes]
        common == DOMAIN genes \cap DOMAIN others
        totalDiff == SumOfDiffs(genes, others, common) + Abs(g.ColorR - other.ColorR)
                     + Abs(g.ColorG - other.ColorG) + Abs(g.ColorB - other.ColorB)
        count == Cardinality(common) + 3
    IN  Unit - (totalDiff \div count)

----------------------------------------------------------------------------
(* GeneticsSpec: two Genetics and the latest value built from them *)

(* genome.heap holds the maps of parent1 (1, 2), of parent2 (3, 4) and of the *)
(* value built last (5, 6): an earlier built value is dropped.              *)

\* Number of calls explored
MaxGeneCalls == 2

AllGenes == GeneNames
SomeGenes == {"metabolism_rate", "movement_speed", "fertility", "curiosity"}

\* Values Randomize can draw for the genes (rand.Float64() is in [0,1))
RandomizedGenes == [g \in GeneNames |-> IF g \in SomeGenes THEN Unit - 1 ELSE 0]

SetTraits == {"movement_speed", "wingspan"}
SetValues == {0 - Unit \div 2, (3 * Unit) \div 2}
NoGenetics == [ Origin |-> "none" ]

GeneInit ==
    /\ \E dom1 \in {AllGenes, GeneNames \ SomeGenes}, dom2 \in {{}, SomeGenes} :
          LET a == NewGenetics(<<>>, dom1)
              b == NewGenetics(a.heap, dom2)
          IN  genome = [ heap |-> [b.heap EXCEPT ![b.obj.Genes] = RandomizedGenes],
                       parent1 |-> a.obj,
                       parent2 |-> [b.obj EXCEPT !.Origin = "Randomize"],
                       made |-> NoGenetics ]
    /\ geneCalls = 0
    /\ met = <<>> /\ metCalls = 0
    /\ lang = <<>> /\ langCalls = 0 /\ lastHeard = <<>>
    /\ emo = <<>> /\ emoCalls = 0
    /\ creatures = <<>> /\ objects = <<>> /\ grid = <<>> /\ timeOfDay = 0
    /\ pc = "idle" /\ idx = 1 /\ nearby = <<>> /\ nextID = 1 /\ ticks = 0
    /\ queries = 0 /\ gridOps = 0 /\ tickStart = <<>> /\ births = 0
    /\ eligible = 0 /\ meals = <<>>
    /\ learn = <<>> /\ learnCalls = 0
    /\ brain = <<>> /\ brainCalls = 0
    /\ kin = <<>> /\ kinCalls = 0
    /\ spatial = <<>>

GeneOthersUnchanged == UNCHANGED <<metVars, langVars, emoVars, worldVars, learnVars, brainVars, kinVars, spatialVars>>

\* The Genetics values of the state
Held == {genome.parent1, genome.parent2} \cup (IF genome.made.Origin = "none" THEN {} ELSE {genome.made})

GeneCombine ==
    /\ geneCalls < MaxGeneCalls
    /\ \E pair \in {<<genome.parent1, genome.parent2>>, <<genome.parent2, genome.parent1>>},
          coin \in BOOLEAN, d \in MutationDraws :
          LET r == Combine(SubSeq(genome.heap, 1, 4), pair[1], pair[2], coin, d)
          IN  genome' = [genome EXCEPT !.heap = r.heap, !.made = r.obj]
    /\ geneCalls' = geneCalls + 1
    /\ GeneOthersUnchanged

GeneClone ==
    /\ geneCalls < MaxGeneCalls
    /\ \E g \in {genome.parent1, genome.parent2} :
          LET r == Clone(SubSeq(genome.heap, 1, 4), g)
          IN  genome' = [genome EXCEPT !.heap = r.heap, !.made = r.obj]
    /\ geneCalls' = geneCalls + 1
    /\ GeneOthersUnchanged

GeneSetTrait ==
    /\ geneCalls < MaxGeneCalls
    /\ \E g \in Held, trait \in SetTraits, value \in SetValues :
          genome' = [genome EXCEPT !.heap = SetTrait(genome.heap, g, trait, value)]
    /\ geneCalls' = geneCalls + 1
    /\ GeneOthersUnchanged

GeneMutate ==
    /\ geneCalls < MaxGeneCalls
    /\ \E which \in {"parent1", "parent2"}, d \in MutationDraws \ {NoMutation} :
          LET r == Mutate(genome.heap, genome[which], d)
          IN  genome' = [genome EXCEPT !.heap = r.heap, ![which] = r.obj]
    /\ geneCalls' = geneCalls + 1
    /\ GeneOthersUnchanged

GeneNext == GeneCombine \/ GeneClone \/ GeneSetTrait \/ GeneMutate

GeneticsSpec == GeneInit /\ [][GeneNext]_vars

----------------------------------------------------------------------------
(* Claims about Genetics *)

C16_InRange(genes) == \A g \in DOMAIN genes : 0 <= genes[g] /\ genes[g] <= Unit

\* C16: for every pair of parents whose gene values all lie in [0,1], every
\* gene value of the child returned by Combine lies in [0,1], both before
\* and after the mutation pass that Combine applies.
C16_ChildGenesInRange ==
    \A pair \in {<<genome.parent1, genome.parent2>>, <<genome.parent2, genome.parent1>>},
       coin \in BOOLEAN, d \in MutationDraws :
        (C16_InRange(genome.heap[pair[1].Genes]) /\ C16_InRange(genome.heap[pair[2].Genes])) =>
            LET before == CombineUnmutated(SubSeq(genome.heap, 1, 4), pair[1], pair[2], coin)
                after == Mutate(before.heap, before.obj, d)
            IN  /\ C16_InRange(before.heap[before.obj.Genes])
                /\ C16_InRange(after.heap[after.obj.Genes])
                /\ after = Combine(SubSeq(genome.heap, 1, 4), pair[1], pair[2], coin, d)

\* C16 witness: Combine has returned a child that took a gene of 0.99999
\* from its dominant parent, and whose mutation pass pushed that gene
\* against the upper limit
C16_Witness ==
    /\ genome.made.Origin = "Combine"
    /\ genome.made.Draw.gene = "movement_speed"
    /\ genome.heap[genome.made.Genes]["movement_speed"] = Unit
    /\ genome.heap[genome.parent2.Genes]["movement_speed"] = Unit - 1

\* C17: for every Genetics g, g.Similarity(g.Clone()) returns exactly 1.0,
\* and the clone shares no gene or dominance map with g: a later change to
\* the clone's genes leaves g's genes unchanged.
C17_CloneEqualAndSeparate ==
    \A g \in {genome.parent1, genome.parent2} :
        LET r == Clone(genome.heap, g)
        IN  /\ Similarity(r.heap, g, r.obj) = Unit
            /\ {r.obj.Genes, r.obj.DominantGenes} \cap {g.Genes, g.DominantGenes} = {}
            /\ \A trait \in SetTraits, value \in SetValues :
                  SetTrait(r.heap, r.obj, trait, value)[g.Genes] = genome.heap[g.Genes]
            /\ \A d \in MutationDraws :
                  LET m == Mutate(r.heap, r.obj, d)
                  IN  /\ m.heap[g.Genes] = genome.heap[g.Genes]
                      /\ m.heap[g.DominantGenes] = genome.heap[g.DominantGenes]

\* C17 witness: a clone has been made and one of its genes changed
\* afterwards, the original keeping its own
C17_Witness ==
    /\ genome.made.Origin = "Clone"
    /\ genome.heap[genome.made.Genes]["movement_speed"] = Unit
    /\ genome.heap[genome.parent1.Genes]["movement_speed"] = Unit \div 2
    /\ \A g \in GeneNames \ {"movement_speed"} :
          genome.heap[genome.made.Genes][g] = genome.heap[genome.parent1.Genes][g]
    /\ genome.heap[genome.made.DominantGenes] = genome.heap[genome.parent1.DominantGenes]

----------------------------------------------------------------------------
(* Brain (src/creature/learning.go) *)

(* Weights, biases, activations and outputs are fixed-point numbers in      *)
(* BrainUnit (1.0 is BrainUnit).  Layer l of the source (from 0) is layer   *)
(* l + 1 here, and weightIndex i*nextLayerSize + j (from 0) is index        *)
(* (i - 1) * nextLayerSize + j (from 1).  sigmoid is the rational           *)
(* 1/2 + x / (2 * (1 + |x|)): increasing, 1/2 at 0 and inside (0,1), as     *)
(* 1/(1 + exp(-x)) is.                                                      *)

BrainUnit == 10^3

InputSize == 32
HiddenSize == 20
OutputMax == 8

\* layerSizes of initializeNetwork
LayerSizes == <<InputSize, HiddenSize, HiddenSize, OutputMax>>

\* sigmoid
sigmoid(x) == BrainUnit \div 2 + (x * (BrainUnit \div 2)) \div (BrainUnit + Abs(x))

\* NewBrain, initializeNetwork: seed stands for the rand.Float64() draws,
\* weights within the Xavier scale and biases within 0.1
NewBrain(seed) ==
    [ weights |-> [l \in 1..3 |->
                      [k \in 1..(LayerSizes[l] * LayerSizes[l + 1]) |->
                          (((k * 7 + l * 3 + seed) % 11) - 5) * 30]],
      biases |-> [l \in 1..3 |->
                     [j \in 1..LayerSizes[l + 1] |-> (((j * 3 + seed) % 5) - 2) * 40]],
      prevWeightChanges |-> [l \in 1..3 |->
                                [k \in 1..(LayerSizes[l] * LayerSizes[l + 1]) |-> 0]],
      prevBiasChanges |-> [l \in 1..3 |-> [j \in 1..LayerSizes[l + 1] |-> 0]],
      activations |-> [l \in 1..4 |-> [j \in 1..LayerSizes[l] |-> 0]],
      output |-> [j \in 1..OutputMax |-> 0] ]

\* copy(dst, src): the first min(len) elements of dst are overwritten
Copy(dst, src) == [k \in DOMAIN dst |-> IF k <= Len(src) THEN src[k] ELSE dst[k]]

\* An input left at its own length when it is shorter than inputSize
TruncatedOnly(input) ==
    IF Len(input) > InputSize THEN SubSeq(input, 1, InputSize) ELSE input

\* Brain.Process, lines 441-451: the input padded with zeros or truncated
PaddedOrTruncated(input) ==
    IF Len(input) # InputSize
    THEN IF Len(input) < InputSize
         THEN Copy([k \in 1..InputSize |-> 0], input)
         ELSE SubSeq(input, 1, InputSize)
    ELSE input

RECURSIVE WeightedSum(_, _, _, _, _)
\* The inner loop of Process: the sum over inputs i..1 of activation times
\* weight, for neuron j of a layer of nextLayerSize neurons
WeightedSum(acts, weights, nextLayerSize, j, i) ==
    IF i = 0 THEN 0
    ELSE acts[i] * weights[(i - 1) * nextLayerSize + j]
         + WeightedSum(acts, weights, nextLayerSize, j, i - 1)

\* A neuron that also sums in the activation it was left with
NeuronKeepingState(b, l, acts, j) ==
    sigmoid(b.biases[l][j] + b.activations[l + 1][j]
            + WeightedSum(acts, b.weights[l], LayerSizes[l + 1], j, Len(acts)) \div BrainUnit)

\* Process, lines 463-473: the activation of neuron j of layer l + 1
Neuron(b, l, acts, j) ==
    sigmoid(b.biases[l][j]
            + WeightedSum(acts, b.weights[l], LayerSizes[l + 1], j, Len(acts)) \div BrainUnit)

\* Brain.Process(input)
Process(b, input) ==
    LET a1 == Copy(b.activations[1], PaddedOrTruncated(input))
        a2 == [j \in 1..Len(b.activations[2]) |-> Neuron(b, 1, a1, j)]
        a3 == [j \in 1..Len(b.activations[3]) |-> Neuron(b, 2, a2, j)]
        a4 == [j \in 1..Len(b.activations[4]) |-> Neuron(b, 3, a3, j)]
    IN  [b EXCEPT !.activations = <<a1, a2, a3, a4>>,
                  !.output = Copy(b.output, a4)]

\* Brain.Reinforce(reward), learningRate being 0.1 and momentum 0.9
Reinforce(b, reward) ==
    LET learningFactor == reward \div 10
        biasChange(l, j) == (learningFactor * b.activations[l + 1][j]) \div BrainUnit
        weightChange(l, k) ==
            LET next == LayerSizes[l + 1]
                i == ((k - 1) \div next) + 1
                j == ((k - 1) % next) + 1
            IN  (((learningFactor * b.activations[l][i]) \div BrainUnit)
                    * b.activations[l + 1][j]) \div BrainUnit
    IN  [b EXCEPT
            !.biases = [l \in 1..3 |-> [j \in DOMAIN @[l] |->
                           @[l][j] + biasChange(l, j) + (9 * b.prevBiasChanges[l][j]) \div 10]],
            !.prevBiasChanges = [l \in 1..3 |-> [j \in DOMAIN @[l] |-> biasChange(l, j)]],
            !.weights = [l \in 1..3 |-> [k \in DOMAIN @[l] |->
                            @[l][k] + weightChange(l, k)
                            + (9 * b.prevWeightChanges[l][k]) \div 10]],
            !.prevWeightChanges = [l \in 1..3 |-> [k \in DOMAIN @[l] |-> weightChange(l, k)]]]

----------------------------------------------------------------------------
(* BrainSpec: one Brain driven through Process and Reinforce *)

\* Number of calls explored
MaxBrainCalls == 3

\* Inputs of length 0, 5, 32 (two of them) and 40
BrainInputs ==
    { <<>>,
      <<BrainUnit, BrainUnit \div 2, 0, BrainUnit \div 4, BrainUnit>>,
      [k \in 1..InputSize |-> ((k * 37) % 11) * 100],
      [k \in 1..InputSize |-> IF k % 2 = 0 THEN BrainUnit ELSE 0],
      [k \in 1..(InputSize + 8) |-> ((k * 13) % 10) * 100 + 50] }

Rewards == {BrainUnit, 0 - BrainUnit \div 2}

BrainInit ==
    /\ brain \in {NewBrain(0), NewBrain(4)}
    /\ brainCalls = 0
    /\ kin = <<>> /\ kinCalls = 0
    /\ spatial = <<>>
    /\ met = <<>> /\ metCalls = 0
    /\ lang = <<>> /\ langCalls = 0 /\ lastHeard = <<>>
    /\ emo = <<>> /\ emoCalls = 0
    /\ creatures = <<>> /\ objects = <<>> /\ grid = <<>> /\ timeOfDay = 0
    /\ pc = "idle" /\ idx = 1 /\ nearby = <<>> /\ nextID = 1 /\ ticks = 0
    /\ queries = 0 /\ gridOps = 0 /\ tickStart = <<>> /\ births = 0
    /\ eligible = 0 /\ meals = <<>>
    /\ learn = <<>> /\ learnCalls = 0
    /\ genome = <<>> /\ geneCalls = 0

BrainOthersUnchanged == UNCHANGED <<metVars, langVars, emoVars, worldVars, learnVars, geneVars, kinVars, spatialVars>>

BrainProcess ==
    /\ brainCalls < MaxBrainCalls
    /\ \E input \in BrainInputs : brain' = Process(brain, input)
    /\ brainCalls' = brainCalls + 1
    /\ BrainOthersUnchanged

BrainReinforce ==
    /\ brainCalls < MaxBrainCalls
    /\ \E reward \in Rewards : brain' = Reinforce(brain, reward)
    /\ brainCalls' = brainCalls + 1
    /\ BrainOthersUnchanged

BrainNext == BrainProcess \/ BrainReinforce

BrainSpec == BrainInit /\ [][BrainNext]_vars

----------------------------------------------------------------------------
(* Claims about Brain *)

\* C18: calling Brain.Process twice with the same input, with no Learn,
\* Reinforce, Mutate or SetWeights in between, yields the same output vector
\* both times, and Process changes no weight or bias.
C18_ProcessRepeatable ==
    \A input \in BrainInputs :
        LET once == Process(brain, input)
            twice == Process(once, input)
        IN  /\ twice.output = once.output
            /\ once.weights = brain.weights /\ once.biases = brain.biases
            /\ twice.weights = brain.weights /\ twice.biases = brain.biases

\* C18 witness: Process has run on a Brain whose weights Reinforce changed
\* after an earlier Process, and left an output that is not the initial one
C18_Witness ==
    /\ brainCalls = MaxBrainCalls
    /\ brain.prevWeightChanges[1] # [k \in 1..(InputSize * HiddenSize) |-> 0]
    /\ brain.weights \notin {NewBrain(0).weights, NewBrain(4).weights}
    /\ brain.output = brain.activations[4]
    /\ brain.activations[1] = [k \in 1..InputSize |-> IF k % 2 = 0 THEN BrainUnit ELSE 0]

\* The input as the claim resizes it: zeros appended up to the declared
\* input size, or the first inputSize elements
C19_Resized(input) == [k \in 1..InputSize |-> IF k <= Len(input) THEN input[k] ELSE 0]

\* C19: Brain.Process accepts an input of any length without faulting: a
\* shorter input gives the same output as that input padded with zeros to
\* the declared input size, a longer input the same output as its first
\* inputSize elements, and afterwards the output vector still has 8 entries
\* and every activation layer keeps its declared length.
C19_AnyInputLength ==
    \A input \in BrainInputs :
        LET done == Process(brain, input)
        IN  /\ done.output = Process(brain, C19_Resized(input)).output
            /\ Len(done.output) = OutputMax
            /\ \A l \in 1..4 : Len(done.activations[l]) = LayerSizes[l]

\* C19 witness: a short input has been processed by a Brain whose input
\* layer held other values from the call before
C19_Witness ==
    /\ brainCalls >= 2
    /\ brain.activations[1] =
          C19_Resized(<<BrainUnit, BrainUnit \div 2, 0, BrainUnit \div 4, BrainUnit>>)
    /\ brain.output = brain.activations[4]
    /\ brain.output # NewBrain(0).output

----------------------------------------------------------------------------
(* RestingSpec: a fresh Metabolism on which only Update(0) is called        *)

RestTicks == 1000

RestingUpdate ==
    /\ metCalls < RestTicks
    /\ met' = MetabolismUpdate(met, 0)
    /\ metCalls' = metCalls + 1
    /\ MetOthersUnchanged

RestingSpec == MetInit /\ [][RestingUpdate]_vars

\* C20: a fresh Metabolism (Health 100, Hunger 30, Energy 80) updated 1000
\* times with activityLevel 0 never has Health below 0, and its Hunger stays
\* under the starvation threshold of 80 during those 1000 updates.
C20_RestingStaysFed ==
    /\ met.Health >= 0
    /\ met.Hunger < 80 * Unit

\* The thousandth update has returned: the initial glucose is used up and
\* the hunger has been rising again since.
C20_Witness ==
    /\ metCalls = 1000
    /\ met.Glucose = 0
    /\ met.Hunger > 0
    /\ met.Health = 100 * Unit

----------------------------------------------------------------------------
(* Claims about Metabolism.Eat, checked under MetabolismSpec                *)

\* C21: on a fresh Metabolism, Eat(25) strictly decreases Hunger and strictly
\* increases Glucose, and a second Eat(25) raises Endorphins by at least as
\* much as the first did.  TotalFoodEaten is incremented by Eat and by no
\* other method, so it tells the Eat steps from the others.
C21_EatFeedsFresh ==
    /\ [][(metCalls = 0 /\ met'.TotalFoodEaten = 1) =>
              /\ met = NewMetabolism
              /\ met'.Hunger < met.Hunger
              /\ met'.Glucose > met.Glucose]_vars
    /\ [][(metCalls = 1 /\ met.TotalFoodEaten = 1 /\ met'.TotalFoodEaten = 2) =>
              met'.Endorphins - met.Endorphins >=
                  met.Endorphins - NewMetabolism.Endorphins]_vars

\* Two meals of 25 have been taken by a fresh Metabolism.
C21_Witness ==
    /\ metCalls = 2
    /\ met.TotalFoodEaten = 2
    /\ met.Glucose = 100 * Unit
    /\ met.Hunger = 5 * Unit
    /\ met.Endorphins = 40 * Unit

----------------------------------------------------------------------------
(* Claims about Learning.RecallSimilarExperience, under LearningSpec        *)

C22_NonZero(situation) == \E i \in 1..Len(situation) : situation[i] # 0

\* C22: when the memory holds exactly one experience with positive
\* importance whose situation vector is identical to a non-zero query
\* vector, RecallSimilarExperience returns that experience and not nil.
C22_IdenticalRecalled ==
    (/\ Len(learn.Experiences) = 1
     /\ learn.Experiences[1].Importance > 0
     /\ C22_NonZero(learn.Experiences[1].Situation))
    => RecallSimilarExperience(learn, learn.Experiences[1].Situation) = 1

----------------------------------------------------------------------------
(* Creatures as the pointers they hold (src/unnamed/part_004,               *)
(* src/creature/breed.go)                                                   *)

(* A heap is a sequence of cells and an address an index into it.  A cell   *)
(* is a weight or bias array of a Brain, a map of a Genetics, the map       *)
(* Learning.Skills, or a Metabolism, Emotions, Movement, Learning or        *)
(* Language struct; the Learning struct holds the address of its Skills     *)
(* map.  A creature is the record of the addresses its fields hold: those   *)
(* of the arrays of its Brain, of the maps of its Genetics, and of its      *)
(* other subsystems.                                                        *)

\* Body applied to a value that is computed once
Let(value, Body(_)) == CHOOSE result \in {Body(v) : v \in {value}} : TRUE

\* Of each weight and bias array the model keeps the first KeptWeights
\* elements; Breed and Mutate treat every element of an array alike.
KeptWeights == 4

KeptOf(array) == [k \in 1..KeptWeights |-> array[k]]

\* The arrays NewBrain allocates for the weights and the biases
BrainArrays(seed) ==
    Let(NewBrain(seed),
        LAMBDA b : << KeptOf(b.weights[1]), KeptOf(b.weights[2]), KeptOf(b.weights[3]),
                      KeptOf(b.biases[1]), KeptOf(b.biases[2]), KeptOf(b.biases[3]) >>)

\* The creature whose subsystems were allocated from address n + 1 on, g
\* being its Genetics
CreatureAt(n, g) ==
    [ Brain |-> [ weights |-> <<n + 1, n + 2, n + 3>>,
                  biases |-> <<n + 4, n + 5, n + 6>> ],
      Genetics |-> g,
      Metabolism |-> n + 9, Emotions |-> n + 10, Movement |-> n + 11,
      Learning |-> n + 13, Language |-> n + 14 ]

\* NewCreature(x, y, creatureType) up to applyGenetics: every subsystem is
\* newly allocated.  seed and dominant stand for the draws of NewBrain and
\* of NewGenetics.
AllocateCreature(heap, seed, dominant) ==
    Let(NewGenetics(heap \o BrainArrays(seed), dominant),
        LAMBDA g :
            [ heap |-> g.heap \o << NewMetabolism, NewEmotions, NewMovement,
                                    NewLearning.Skills,
                                    [NewLearning EXCEPT !.Skills = Len(g.heap) + 4],
                                    NewLanguage >>,
              obj |-> CreatureAt(Len(g.heap) - 8, g.obj) ])

\* Creature.applyGenetics on the subsystems the creature points to
applyGeneticsRefs(heap, c) ==
    Let(heap[c.Genetics.Genes],
        LAMBDA genes :
            [heap EXCEPT
                ![c.Metabolism].HungerRate =
                    MulDivNat(@, MapGet(genes, "metabolism_rate", 0), Unit),
                ![c.Movement].Speed =
                    MulDivNat(@, MapGet(genes, "movement_speed", 0), Unit),
                ![c.Emotions].BaseHappiness =
                    (MapGet(genes, "happiness_bias", 0) - Unit \div 2) * 40,
                ![c.Emotions].FearThreshold = MapGet(genes, "fear_threshold", 0) * 100,
                ![c.Emotions].AngerThreshold = MapGet(genes, "anger_threshold", 0) * 100])

\* NewCreature(x, y, creatureType)
NewCreatureRefs(heap, seed, dominant) ==
    Let(AllocateCreature(heap, seed, dominant),
        LAMBDA c : [ heap |-> applyGeneticsRefs(c.heap, c.obj), obj |-> c.obj ])

\* Brain.GetWeights: new arrays holding the values of the weights
GetWeights(heap, b) == [i \in 1..Len(b.weights) |-> heap[b.weights[i]]]

\* Brain.SetWeights: the values are copied into the arrays of b
SetWeights(heap, b, weights) ==
    IF Len(weights) # Len(b.weights) THEN heap
    ELSE [a \in 1..Len(heap) |->
             IF \E i \in 1..Len(weights) :
                    b.weights[i] = a /\ Len(weights[i]) = Len(heap[a])
             THEN LET i == CHOOSE i \in 1..Len(weights) : b.weights[i] = a
                  IN  Copy(heap[a], weights[i])
             ELSE heap[a]]

\* The draws of one Brain.Mutate call: the array whose rand.Float64() fell
\* under mutationRate (0: none), the place in it and the noise added
NoBrainMutation == [ layer |-> 0, place |-> 1, noise |-> 0, bias |-> FALSE ]

\* Brain.Mutate(mutationRate) with the draws d
BrainMutate(heap, b, d) ==
    IF d.layer = 0 THEN heap
    ELSE IF d.bias
         THEN [heap EXCEPT ![b.biases[d.layer]][d.place] = @ + d.noise]
         ELSE [heap EXCEPT ![b.weights[d.layer]][d.place] = @ + d.noise]

\* inheritBrain's weight number k of a layer; choice stands for the
\* rand.Float64() draws, one for each weight
InheritedWeight(choice, k, w1, w2) ==
    LET pick == IF choice = "mixed" THEN <<"parent1", "parent2", "average">>[(k % 3) + 1]
                ELSE choice
    IN  IF pick = "parent1" THEN w1
        ELSE IF pick = "parent2" THEN w2
        ELSE TruncDiv(w1 + w2, 2)

\* inheritBrain's childWeights
CombinedWeights(parent1Weights, parent2Weights, choice) ==
    [i \in 1..Len(parent1Weights) |->
        IF Len(parent1Weights[i]) # Len(parent2Weights[i]) THEN <<>>
        ELSE [k \in 1..Len(parent1Weights[i]) |->
                 InheritedWeight(choice, k, parent1Weights[i][k], parent2Weights[i][k])]]

\* inheritBrain(childBrain, parent1Brain, parent2Brain)
inheritBrain(heap, childBrain, parent1Brain, parent2Brain, choice, d) ==
    Let(<<GetWeights(heap, parent1Brain), GetWeights(heap, parent2Brain)>>,
        LAMBDA w :
            IF Len(w[1]) # Len(w[2]) THEN heap
            ELSE Let(SetWeights(heap, childBrain, CombinedWeights(w[1], w[2], choice)),
                     LAMBDA h : BrainMutate(h, childBrain, d)))

\* Learning.GetSkillLevel on a Skills map
GetSkillLevel(skills, skill) == MapGet(skills, skill, 0)

\* Breed's "baby.Genetics = Combine(...)", applyGenetics and inheritBrain
BreedBody(born, parent1, parent2, draw) ==
    Let(Combine(born.heap, parent1.Genetics, parent2.Genetics, draw.coin, draw.genes),
        LAMBDA genetics :
            Let([born.obj EXCEPT !.Genetics = genetics.obj],
                LAMBDA baby :
                    Let(applyGeneticsRefs(genetics.heap, baby),
                        LAMBDA h :
                            [ heap |-> inheritBrain(h, baby.Brain, parent1.Brain,
                                                    parent2.Brain, draw.choice, draw.brain),
                              obj |-> baby ])))

\* Breed's new Metabolism and new Emotions
BreedMood(b, parent1, parent2) ==
    Let(<<b.heap[parent1.Emotions], b.heap[parent2.Emotions]>>,
        LAMBDA e :
            [ heap |-> b.heap \o
                  << [NewMetabolism EXCEPT !.Health = 80 * Unit, !.Energy = 60 * Unit,
                                           !.Hunger = 50 * Unit],
                     [NewEmotions EXCEPT
                         !.BaseHappiness =
                             MulDiv(e[1].BaseHappiness + e[2].BaseHappiness, 1, 2),
                         !.FearThreshold =
                             MulDiv(e[1].FearThreshold + e[2].FearThreshold, 1, 2),
                         !.AngerThreshold =
                             MulDiv(e[1].AngerThreshold + e[2].AngerThreshold, 1, 2)] >>,
              obj |-> [b.obj EXCEPT !.Metabolism = Len(b.heap) + 1,
                                    !.Emotions = Len(b.heap) + 2] ])

\* Breed up to "baby.Learning = NewLearning()": the baby with the Genetics
\* Combine returned, the inherited weights, a new Metabolism and new
\* Emotions.  draw holds the random draws of the call.
BreedBeforeLearning(heap, parent1, parent2, draw) ==
    Let(NewCreatureRefs(heap, draw.seed, {}),
        LAMBDA born :
            Let(BreedBody(born, parent1, parent2, draw),
                LAMBDA b : BreedMood(b, parent1, parent2)))

\* Breed's loop over parent1.Learning.Skills, writing into the Skills map of
\* the Learning at address learning
InheritSkills(heap, learning, parent1, parent2) ==
    Let(<<heap[heap[parent1.Learning].Skills], heap[heap[parent2.Learning].Skills]>>,
        LAMBDA skills :
            [heap EXCEPT ![heap[learning].Skills] =
                [skill \in DOMAIN skills[1] |->
                    MulDiv(GetSkillLevel(skills[1], skill) + GetSkillLevel(skills[2], skill),
                           1, 4)]
                @@ @])

\* A Breed that hands parent1's Learning to the baby
BreedRefsSharingLearning(heap, parent1, parent2, draw) ==
    Let(BreedBeforeLearning(heap, parent1, parent2, draw),
        LAMBDA b :
            [ heap |-> InheritSkills(b.heap, parent1.Learning, parent1, parent2),
              obj |-> [b.obj EXCEPT !.Learning = parent1.Learning] ])

\* The baby's "NewLearning()"
BreedLearning(b) ==
    [ heap |-> b.heap \o << NewLearning.Skills,
                            [NewLearning EXCEPT !.Skills = Len(b.heap) + 1] >>,
      obj |-> [b.obj EXCEPT !.Learning = Len(b.heap) + 2] ]

\* Breed(parent1, parent2): the heap it leaves and the baby
BreedRefs(heap, parent1, parent2, draw) ==
    Let(BreedBeforeLearning(heap, parent1, parent2, draw),
        LAMBDA b :
            Let(BreedLearning(b),
                LAMBDA c :
                    [ heap |-> InheritSkills(c.heap, c.obj.Learning, parent1, parent2),
                      obj |-> c.obj ]))

\* The addresses a creature reaches
KinRefs(heap, c) ==
    {c.Brain.weights[i] : i \in 1..3} \cup {c.Brain.biases[i] : i \in 1..3}
    \cup {c.Genetics.Genes, c.Genetics.DominantGenes, c.Metabolism, c.Emotions,
          c.Movement, c.Learning, heap[c.Learning].Skills, c.Language}

\* The subsystems of a creature, as values
KinView(heap, c) ==
    [ weights |-> [i \in 1..3 |-> heap[c.Brain.weights[i]]],
      biases |-> [i \in 1..3 |-> heap[c.Brain.biases[i]]],
      Genes |-> heap[c.Genetics.Genes],
      DominantGenes |-> heap[c.Genetics.DominantGenes],
      Metabolism |-> heap[c.Metabolism],
      Emotions |-> heap[c.Emotions],
      Movement |-> heap[c.Movement],
      Learning |-> heap[c.Learning],
      Skills |-> heap[heap[c.Learning].Skills],
      Language |-> heap[c.Language] ]

----------------------------------------------------------------------------
(* KinSpec: two creatures made by NewCreature, the babies Breed makes of    *)
(* them, and calls that write to the subsystems of one of them.  touched    *)
(* is a history field: the creature the last call was made on, the baby     *)
(* for a Breed.                                                             *)

\* Number of calls explored, and of creatures
MaxKinCalls == 2
MaxFamily == 3

\* Random draws of one Breed call
BreedDraws ==
    { [ seed |-> 2, coin |-> TRUE, genes |-> NoMutation, choice |-> "parent1",
        brain |-> NoBrainMutation ],
      [ seed |-> 7, coin |-> FALSE,
        genes |-> [ gene |-> "lifespan", change |-> 0 - 9000, flip |-> TRUE,
                    colour |-> 0 - 9000, pattern |-> "striped" ],
        choice |-> "mixed",
        brain |-> [ layer |-> 2, place |-> 3, noise |-> 50, bias |-> FALSE ] ],
      [ seed |-> 2, coin |-> TRUE, genes |-> NoMutation, choice |-> "average",
        brain |-> [ layer |-> 3, place |-> 1, noise |-> 0 - 50, bias |-> TRUE ] ] }

KinInit ==
    /\ \E a \in {NewCreatureRefs(<<>>, 0, SomeGenes)} :
          \E b \in {NewCreatureRefs(a.heap, 4, GeneNames \ SomeGenes)} :
              kin = [ heap |-> b.heap, family |-> <<a.obj, b.obj>>, touched |-> 0 ]
    /\ kinCalls = 0
    /\ spatial = <<>>
    /\ met = <<>> /\ metCalls = 0
    /\ lang = <<>> /\ langCalls = 0 /\ lastHeard = <<>>
    /\ emo = <<>> /\ emoCalls = 0
    /\ creatures = <<>> /\ objects = <<>> /\ grid = <<>> /\ timeOfDay = 0
    /\ pc = "idle" /\ idx = 1 /\ nearby = <<>> /\ nextID = 1 /\ ticks = 0
    /\ queries = 0 /\ gridOps = 0 /\ tickStart = <<>> /\ births = 0
    /\ eligible = 0 /\ meals = <<>>
    /\ learn = <<>> /\ learnCalls = 0
    /\ genome = <<>> /\ geneCalls = 0
    /\ brain = <<>> /\ brainCalls = 0

KinOthersUnchanged ==
    UNCHANGED <<metVars, langVars, emoVars, worldVars, learnVars, geneVars, brainVars,
                spatialVars>>

\* The call wrote newHeap on behalf of creature k
KinWrite(k, newHeap) ==
    /\ kin' = [kin EXCEPT !.heap = newHeap, !.touched = k]
    /\ kinCalls' = kinCalls + 1
    /\ KinOthersUnchanged

KinBreed ==
    /\ kinCalls < MaxKinCalls
    /\ Len(kin.family) < MaxFamily
    /\ \E i, j \in 1..Len(kin.family), draw \in BreedDraws :
          /\ i # j
          /\ \E born \in {BreedRefs(kin.heap, kin.family[i], kin.family[j], draw)} :
                kin' = [ heap |-> born.heap, family |-> Append(kin.family, born.obj),
                         touched |-> Len(kin.family) + 1 ]
    /\ kinCalls' = kinCalls + 1
    /\ KinOthersUnchanged

KinSetTrait ==
    /\ kinCalls < MaxKinCalls
    /\ \E k \in 1..Len(kin.family) :
          KinWrite(k, SetTrait(kin.heap, kin.family[k].Genetics, "movement_speed",
                               (9 * Unit) \div 10))

KinMutateBrain ==
    /\ kinCalls < MaxKinCalls
    /\ \E k \in 1..Len(kin.family) :
          KinWrite(k, BrainMutate(kin.heap, kin.family[k].Brain,
                                  [ layer |-> 1, place |-> 3, noise |-> 70, bias |-> FALSE ]))

KinImproveSkill ==
    /\ kinCalls < MaxKinCalls
    /\ \E k \in 1..Len(kin.family) :
          LET skills == kin.heap[kin.family[k].Learning].Skills
          IN  KinWrite(k, [kin.heap EXCEPT ![skills] =
                              improveSkill([Skills |-> @], "eating", 2 * Unit).Skills])

KinTeachWord ==
    /\ kinCalls < MaxKinCalls
    /\ \E k \in 1..Len(kin.family) :
          \E taught \in LanguageTeachWord(kin.heap[kin.family[k].Language], Ball, "toy") :
              KinWrite(k, [kin.heap EXCEPT ![kin.family[k].Language] = taught])

KinEat ==
    /\ kinCalls < MaxKinCalls
    /\ \E k \in 1..Len(kin.family) :
          KinWrite(k, [kin.heap EXCEPT ![kin.family[k].Metabolism] = MetabolismEat(@, 25 * Unit)])

KinAdjustHappiness ==
    /\ kinCalls < MaxKinCalls
    /\ \E k \in 1..Len(kin.family) :
          KinWrite(k, [kin.heap EXCEPT ![kin.family[k].Emotions] = AdjustHappiness(@, 20 * Unit)])

KinNext ==
    \/ KinBreed \/ KinSetTrait \/ KinMutateBrain \/ KinImproveSkill
    \/ KinTeachWord \/ KinEat \/ KinAdjustHappiness

KinSpec == KinInit /\ [][KinNext]_vars

\* C23: no subsystem instance is shared between two creatures.  After Breed
\* the baby's weight arrays, Genetics maps, Metabolism, Emotions, Learning
\* and Language are distinct from both parents', so a later write to the
\* subsystems of one creature (weights, genes, skills, vocabulary) leaves
\* those of every other creature unchanged, parents and baby alike; a Breed
\* leaves the subsystems of the creatures that existed unchanged.
C23_NoSharedSubsystem ==
    /\ [](\A i, j \in 1..Len(kin.family) :
              i # j => KinRefs(kin.heap, kin.family[i]) \cap KinRefs(kin.heap, kin.family[j]) = {})
    /\ [][\A j \in 1..Len(kin.family) :
              j # kin'.touched =>
                  KinView(kin'.heap, kin'.family[j]) = KinView(kin.heap, kin.family[j])]_vars

\* A baby was bred and then its skills were written: they are above what it
\* inherited, a quarter of the sum of the parents' levels, which are as they
\* were.
C23_Witness ==
    /\ kinCalls = 2
    /\ Len(kin.family) = 3
    /\ kin.touched = 3
    /\ kin.heap[kin.heap[kin.family[1].Learning].Skills]["eating"] = 20 * Unit
    /\ kin.heap[kin.heap[kin.family[2].Learning].Skills]["eating"] = 20 * Unit
    /\ kin.heap[kin.heap[kin.family[3].Learning].Skills]["eating"] > 10 * Unit

----------------------------------------------------------------------------
(* Claims about the skill levels, under LearningSpec                        *)

\* C24: every skill level stays in [0,100] after any sequence of
\* LearnFromExperience calls with outcomes of either sign (and so in every
\* child Breed makes of such parents).
C24_SkillsInRange ==
    \A skill \in DOMAIN learn.Skills :
        0 <= learn.Skills[skill] /\ learn.Skills[skill] <= 100 * Unit

----------------------------------------------------------------------------
(* Claims about the interaction resolution, under WorldSpec                 *)

\* C25: when a creature consumes a food item during interaction resolution,
\* Brain.Reinforce(1.0) is applied if and only if the creature was hungry:
\* its Hunger was above 50 before the item's nutrition was transferred.
C25_ReinforcedIffWasHungry ==
    \A m \in DOMAIN meals :
        meals[m].Reinforced <=> meals[m].HungerBefore > 50 * Unit

----------------------------------------------------------------------------
(* Claims about the sensors, under WorldSpec                                *)

\* What UpdateSensors gives creature k of the world as the tick found it
C26_SensedAtStart(k) ==
    LET c == tickStart.creatures[k]
    IN  UpdateSensors(c, GetNearby(grid, c.X, c.Y, VisionRange * PosUnit),
                      tickStart.creatures).Vision

\* C26: within one tick each creature's action decision depends only on the
\* world state as of the start of the tick: the sensor input a creature
\* feeds to Process is not affected by position or state changes already
\* applied to creatures processed earlier in the same tick (and so is the
\* same whatever the iteration order).  Checked once the grid is built, on
\* the creatures the loop has processed.
C26_DecisionFromTickStart ==
    /\ pc = "creatures" =>
           \A k \in 1..(idx - 1) : creatures[k].Vision = C26_SensedAtStart(k)
    /\ pc = "objects" =>
           \A k \in 1..Len(creatures) : creatures[k].Vision = C26_SensedAtStart(k)


\* The creatures a breeding step has written to: the parents
C28_Parents == { i \in DOMAIN creatures : creatures'[i] # creatures[i] }

\* C28: each breeding event lowers the Energy of each of the two parents by
\* 30 and records the parent's current age as its last breeding time; the
\* last breeding time changes in no other way, and a creature is a parent
\* only when its age is at least 10 units past its last breeding time.
C28_BreedingChargesAndRests ==
    /\ [][Len(creatures') > Len(creatures) =>
              /\ Cardinality(C28_Parents) = 2
              /\ \A i \in C28_Parents :
                    /\ creatures'[i].Metabolism.Energy =
                           creatures[i].Metabolism.Energy - 30 * Unit
                    /\ creatures'[i].LastBreedTime = creatures[i].Age
                    /\ creatures[i].Age - creatures[i].LastBreedTime >= 10 * TicksPerMinute]_vars
    /\ [][Len(creatures') <= Len(creatures) =>
              \A i \in DOMAIN creatures, j \in DOMAIN creatures' :
                  creatures'[j].ID = creatures[i].ID =>
                      creatures'[j].LastBreedTime = creatures[i].LastBreedTime]_vars

\* C28 witness: the breeding resolution of the tick after a birth has run and
\* added nobody, although the two parents of the previous tick stand within
\* breeding radius, both adult with Health above 70, Energy above 50 and breed
\* output above 0.7: only their age, one tick past their last breeding time,
\* keeps them from breeding.
C28_Witness ==
    /\ pc = "prune" /\ ticks = 1 /\ births = 0
    /\ \E i, j \in DOMAIN creatures :
          /\ i < j
          /\ creatures[i].LastBreedTime = creatures[i].Age - 1
          /\ creatures[j].LastBreedTime = creatures[j].Age - 1
          /\ CanBreedNoCooldown(creatures[i]) /\ CanBreedNoCooldown(creatures[j])
          /\ creatures[i].Metabolism.Energy < 70 * Unit
          /\ creatures[i].Output.Breed > 70000 /\ creatures[j].Output.Breed > 70000
          /\ Within(creatures[i].X, creatures[i].Y, creatures[j].X, creatures[j].Y, 60)

\* The flag of a gene in the DominantGenes map of g
C29_Dominant(heap, g, gene) == MapGet(heap[g.DominantGenes], gene, FALSE)

\* C29: for every gene, the child returned by Combine is dominant when both
\* parents are dominant for the gene, and recessive when both are recessive.
C29_SameFlagInherited ==
    [][(/\ geneCalls' = geneCalls + 1
        /\ genome'.made.Origin = "Combine"
        /\ genome'.parent1 = genome.parent1 /\ genome'.parent2 = genome.parent2
        /\ SubSeq(genome'.heap, 1, 4) = SubSeq(genome.heap, 1, 4)) =>
           \A gene \in DOMAIN genome.heap[genome.parent1.Genes] :
               LET p1 == C29_Dominant(genome.heap, genome.parent1, gene)
                   p2 == C29_Dominant(genome.heap, genome.parent2, gene)
                   child == C29_Dominant(genome'.heap, genome'.made, gene)
               IN  /\ (p1 /\ p2) => child
                   /\ (~p1 /\ ~p2) => ~child]_vars

\* The Skills map of creature c
C30_Skills(heap, c) == heap[heap[c.Learning].Skills]

\* C30: for every skill of the parents, the child produced by Breed starts
\* with a level equal to one quarter of the average of the two parents'
\* levels for that skill.
C30_QuarterOfParentAverage ==
    [][Len(kin'.family) > Len(kin.family) =>
           \E i, j \in 1..Len(kin.family) :
               /\ i # j
               /\ \A skill \in DOMAIN C30_Skills(kin.heap, kin.family[i]) :
                      C30_Skills(kin'.heap, kin'.family[Len(kin'.family)])[skill] =
                          MulDiv(MulDiv(GetSkillLevel(C30_Skills(kin.heap, kin.family[i]), skill)
                                        + GetSkillLevel(C30_Skills(kin.heap, kin.family[j]), skill),
                                        1, 2),
                                 1, 4)]_vars

\* The record of the creature with identity id at the start of the tick
C34_AtStart(id) ==
    LET k == CHOOSE k \in DOMAIN tickStart.creatures : tickStart.creatures[k].ID = id
    IN  tickStart.creatures[k]

\* C34: in every world tick each creature in the world has its Metabolism,
\* Emotions, Learning and Language updated once; in particular
\* Language.Update runs once per creature per tick.
C34_SubsystemsUpdatedOnce ==
    (pc = "idle" /\ ticks > 0) =>
        \A k \in DOMAIN creatures :
            (\E j \in DOMAIN tickStart.creatures :
                 tickStart.creatures[j].ID = creatures[k].ID) =>
                \A subsystem \in {"Metabolism", "Emotions", "Learning", "Language"} :
                    creatures[k].Updates[subsystem] =
                        C34_AtStart(creatures[k].ID).Updates[subsystem] + 1

\* C35: under repeated Language.Update calls a vocabulary entry that is never
\* heard, taught or spoken again has its last-used counter grow on every
\* call, passes the 600 horizon, then loses confidence on every further call
\* and is eventually deleted.  The formula states the first link, on which
\* the others rest: every Update call leaves each entry it keeps with a
\* larger last-used counter, and with a smaller confidence once the counter
\* is beyond 600.
C35_UnusedEntryAges ==
    [][langCalls' = langCalls + 1 =>
          \A word \in DOMAIN lang.Vocabulary :
              word \in DOMAIN lang'.Vocabulary =>
                  /\ lang'.Vocabulary[word].LastUsed > lang.Vocabulary[word].LastUsed
                  /\ lang'.Vocabulary[word].LastUsed > 600000 =>
                         lang'.Vocabulary[word].Confidence < lang.Vocabulary[word].Confidence]_vars

\* C36: when World.Update returns, no object remaining in the world's object
\* collection reports ShouldRemove() = true; a food item consumed during the
\* tick is no longer in the collection at the end of that tick.
C36_NoRemovableObjectLeft ==
    (pc = "idle" /\ ticks > 0) =>
        \A k \in DOMAIN objects : ~ShouldRemove(objects[k])

----------------------------------------------------------------------------
(* GridSpec: SpatialGrid.Add and SpatialGrid.GetNearby on arbitrary positions *)

\* Add calls made on one grid before it is cleared
MaxAdds == 2

\* Positions and query points, in hundredths of a pixel: negative ones, ones
\* between -1 and 0, ones on a cell boundary and ones just below it
GridXs == {0 - 100 * PosUnit, 0 - PosUnit \div 2, 0, 100 * PosUnit, 200 * PosUnit - 1}
GridYs == {0 - 100 * PosUnit, 0, 100 * PosUnit}

\* Radii of the queries, in hundredths of a pixel
GridRadii == {30 * PosUnit, 100 * PosUnit}

\* NewSpatialGrid: no cell; asked tells that Result is the answer of
\* GetNearby(X, Y, Radius) on the grid as it is now
GridInit ==
    /\ spatial = [ cells |-> GridClear, added |-> <<>>, asked |-> FALSE,
                   X |-> 0, Y |-> 0, Radius |-> 0, Result |-> <<>> ]
    /\ met = <<>> /\ metCalls = 0
    /\ lang = <<>> /\ langCalls = 0 /\ lastHeard = <<>>
    /\ emo = <<>> /\ emoCalls = 0
    /\ creatures = <<>> /\ objects = <<>> /\ grid = <<>> /\ timeOfDay = 0
    /\ pc = "idle" /\ idx = 1 /\ nearby = <<>> /\ nextID = 1 /\ ticks = 0
    /\ queries = 0 /\ gridOps = 0 /\ tickStart = <<>> /\ births = 0
    /\ eligible = 0 /\ meals = <<>>
    /\ learn = <<>> /\ learnCalls = 0
    /\ genome = <<>> /\ geneCalls = 0
    /\ brain = <<>> /\ brainCalls = 0
    /\ kin = <<>> /\ kinCalls = 0

GridOthersUnchanged ==
    UNCHANGED <<metVars, langVars, emoVars, worldVars, learnVars, geneVars, brainVars,
                kinVars>>

\* grid.Add(entity, x, y) with a new entity
SpatialAdd ==
    /\ Len(spatial.added) < MaxAdds
    /\ \E x \in GridXs, y \in GridYs :
          \E entity \in {[ Kind |-> "food", ID |-> Len(spatial.added) + 1 ]} :
              spatial' = [spatial EXCEPT
                             !.cells = GridAdd(@, entity, x, y),
                             !.added = Append(@, [ Ref |-> entity, X |-> x, Y |-> y ]),
                             !.asked = FALSE, !.X = 0, !.Y = 0, !.Radius = 0,
                             !.Result = <<>>]
    /\ GridOthersUnchanged

\* grid.GetNearby(x, y, radius)
SpatialGetNearby ==
    /\ \E x \in GridXs, y \in GridYs, radius \in GridRadii :
          spatial' = [spatial EXCEPT
                         !.asked = TRUE, !.X = x, !.Y = y, !.Radius = radius,
                         !.Result = GetNearby(spatial.cells, x, y, radius)]
    /\ GridOthersUnchanged

\* grid.Clear()
SpatialClear ==
    /\ spatial.added # <<>>
    /\ spatial' = [spatial EXCEPT !.cells = GridClear, !.added = <<>>,
                                  !.asked = FALSE, !.X = 0, !.Y = 0, !.Radius = 0,
                                  !.Result = <<>>]
    /\ GridOthersUnchanged

GridNext == SpatialAdd \/ SpatialGetNearby \/ SpatialClear

GridSpec == GridInit /\ [][GridNext]_vars

\* The entity of Add call a lies within the radius of the query point
C27_Within(a, x, y, radius) ==
    (a.X - x) * (a.X - x) + (a.Y - y) * (a.Y - y) <= radius * radius

\* C27: whatever GetNearby(x, y, r) returns holds every entity that was added
\* to the grid at a position within distance r of (x, y), negative positions
\* and positions on a cell boundary included.
C27_NearbyIsSuperset ==
    spatial.asked =>
        \A n \in DOMAIN spatial.added :
            C27_Within(spatial.added[n], spatial.X, spatial.Y, spatial.Radius) =>
                \E k \in DOMAIN spatial.Result : spatial.Result[k] = spatial.added[n].Ref

\* C27 witness: a query at the origin with radius 100 has returned both an
\* entity added 100 px to the left, in negative coordinates, and an entity
\* added on the boundary of the next cell, exactly 100 px to the right.
C27_Witness ==
    /\ spatial # <<>>
    /\ spatial.asked /\ spatial.X = 0 /\ spatial.Y = 0 /\ spatial.Radius = 100 * PosUnit
    /\ Len(spatial.added) = 2
    /\ spatial.added[1].X = 0 - 100 * PosUnit /\ spatial.added[1].Y = 0
    /\ spatial.added[2].X = 100 * PosUnit /\ spatial.added[2].Y = 0
    /\ \E k \in DOMAIN spatial.Result : spatial.Result[k] = spatial.added[1].Ref
    /\ \E k \in DOMAIN spatial.Result : spatial.Result[k] = spatial.added[2].Ref


----------------------------------------------------------------------------
(* Claims about the associations, under LearningSpec                        *)

\* The step is a LearnAssociation call: the associations changed, the
\* attention and the experiences did not
C31_LearnAssociationStep ==
    /\ learn'.Associations # learn.Associations
    /\ learn'.Focus = learn.Focus /\ learn'.AttentionSpan = learn.AttentionSpan
    /\ learn'.Experiences = learn.Experiences

\* The strength of the association under key, 0 when there is none
C31_Strength(l, key) ==
    IF key \in DOMAIN l.Associations THEN l.Associations[key].Strength ELSE 0

\* C31: every LearnAssociation call moves the strength of the keyed
\* association by +0.1 * LearningRate on success and by -0.1 * LearningRate
\* on failure, starting from 0 when the key is new, clamps the result to
\* [-1,1] and resets the association's unused counter.
C31_AssociationMovesByRate ==
    [][C31_LearnAssociationStep =>
           \A key \in DOMAIN learn'.Associations :
               C31_Strength(learn', key) # C31_Strength(learn, key) =>
                   /\ learn'.Associations[key].LastUsed = 0
                   /\ \/ learn'.Associations[key].Strength =
                             Clamp(C31_Strength(learn, key) + Unit \div 100, 0 - Unit, Unit)
                      \/ learn'.Associations[key].Strength =
                             Clamp(C31_Strength(learn, key) - Unit \div 100, 0 - Unit, Unit)]_vars


----------------------------------------------------------------------------
(* DecaySpec: a Learning left to its Update calls, with no PayAttention     *)

(* learnCalls counts the Update calls here.  LearnAssociation and           *)
(* LearnFromExperience come in between them, at the ticks named below.      *)

\* Update calls explored
DecayTicks == 1001

\* The ticks after which LearnAssociation is called again
RelearnTicks == {500}

\* The ticks after which an experience is offered: at once, around the tick
\* at which Focus reaches 30, and at the end
ExperienceTicks == {0, 399, 400, 401}

RECURSIVE Discouraged(_, _)
\* l after n LearnAssociation("food", "eat", false) calls
Discouraged(l, n) ==
    IF n = 0 THEN l ELSE Discouraged(LearnAssociation(l, "food->eat", FALSE), n - 1)

\* NewLearning() after LearnAssociation("food", "eat", true) and then no, one
\* or nine failures: strengths 0.1, 0.09 and 0.01
DecayInit ==
    /\ learn \in { Discouraged(LearnAssociation(NewLearning, "food->eat", TRUE), n) :
                      n \in {0, 1, 9} }
    /\ learnCalls = 0
    /\ met = <<>> /\ metCalls = 0
    /\ lang = <<>> /\ langCalls = 0 /\ lastHeard = <<>>
    /\ emo = <<>> /\ emoCalls = 0
    /\ creatures = <<>> /\ objects = <<>> /\ grid = <<>> /\ timeOfDay = 0
    /\ pc = "idle" /\ idx = 1 /\ nearby = <<>> /\ nextID = 1 /\ ticks = 0
    /\ queries = 0 /\ gridOps = 0 /\ tickStart = <<>> /\ births = 0
    /\ eligible = 0 /\ meals = <<>>
    /\ genome = <<>> /\ geneCalls = 0
    /\ brain = <<>> /\ brainCalls = 0
    /\ kin = <<>> /\ kinCalls = 0
    /\ spatial = <<>>

\* Learning.Update
DecayUpdate ==
    /\ learnCalls < DecayTicks
    /\ learn' = LearningUpdate(learn)
    /\ learnCalls' = learnCalls + 1
    /\ LearnOthersUnchanged

\* LearnAssociation("food", "eat", success), once after a tick of RelearnTicks
DecayLearnAssociation ==
    /\ learnCalls \in RelearnTicks
    /\ \A key \in DOMAIN learn.Associations : learn.Associations[key].LastUsed # 0
    /\ \E success \in BOOLEAN : learn' = LearnAssociation(learn, "food->eat", success)
    /\ UNCHANGED learnCalls
    /\ LearnOthersUnchanged

\* LearnFromExperience(situation, OutputEat, 3), once in a run
DecayLearnFromExperience ==
    /\ learnCalls \in ExperienceTicks
    /\ learn.Experiences = <<>>
    /\ learn' = LearnFromExperience(learn, <<Unit, 0>>, OutputEat, 3 * Unit)
    /\ UNCHANGED learnCalls
    /\ LearnOthersUnchanged

DecayNext == DecayUpdate \/ DecayLearnAssociation \/ DecayLearnFromExperience

DecaySpec == DecayInit /\ [][DecayNext]_vars

\* The world calls Update on every tick
DecayLiveSpec == DecaySpec /\ WF_vars(DecayUpdate)

\* C32: after every forget pass no stored association has |strength| below
\* 0.01 or an unused counter above 1000; the pass adds one to the counter of
\* every association it keeps, so that one never learned again is deleted
\* after at most 1001 ticks; and an association that meets neither condition
\* after the decay is kept.
C32_ForgetDeletesWeakAndUnused ==
    [][learnCalls' = learnCalls + 1 =>
          /\ \A key \in DOMAIN learn'.Associations :
                /\ Abs(learn'.Associations[key].Strength) >= Unit \div 100
                /\ learn'.Associations[key].LastUsed <= 1000
                /\ key \in DOMAIN learn.Associations
                /\ learn'.Associations[key].LastUsed = learn.Associations[key].LastUsed + 1
          /\ \A key \in DOMAIN learn.Associations :
                (/\ Abs(MulDiv(learn.Associations[key].Strength, 999, 1000)) >= Unit \div 100
                 /\ learn.Associations[key].LastUsed + 1 <= 1000) =>
                    key \in DOMAIN learn'.Associations]_vars

\* C32 witness: an association learned before the first tick and never since
\* has been kept by 1000 forget passes, its strength still above 0.01, and
\* the next pass is its last
C32_Witness ==
    /\ learnCalls = 1000
    /\ "food->eat" \in DOMAIN learn.Associations
    /\ learn.Associations["food->eat"].LastUsed = 1000
    /\ learn.Associations["food->eat"].Strength >= Unit \div 100

\* Focus is at 30 or below and CanLearn() is false
C39_Spent(l) == ~CanLearn(l) /\ l.Focus <= 30 * Unit

\* C39: with no PayAttention call, every Learning.Update lowers Focus and
\* AttentionSpan (down to 0) and nothing raises them; CanLearn() eventually
\* becomes false and Focus eventually falls to 30 or below, and from then on
\* CanLearn() stays false and LearnFromExperience changes no skill.
C39_AttentionRunsOut ==
    /\ [][/\ learn'.Focus <= learn.Focus
          /\ learn'.AttentionSpan <= learn.AttentionSpan
          /\ learnCalls' = learnCalls + 1 =>
                /\ learn'.Focus < learn.Focus \/ learn.Focus = 0
                /\ learn'.AttentionSpan < learn.AttentionSpan \/ learn.AttentionSpan = 0]_vars
    /\ <>[]C39_Spent(learn)
    /\ [][C39_Spent(learn) => (C39_Spent(learn') /\ learn'.Skills = learn.Skills)]_vars

\* C39 witness: an experience with outcome 3 was offered after the 401st
\* Update and stored, and the skills are those of NewLearning()
C39_Witness ==
    /\ learnCalls = 401
    /\ Len(learn.Experiences) = 1
    /\ learn.Experiences[1].Importance = 3 * Unit
    /\ C39_Spent(learn)
    /\ learn.Skills = NewLearning.Skills


----------------------------------------------------------------------------
(* HearingSpec: HearWord calls on a Language, each call recorded in lastHeard *)

\* Number of HearWord calls explored
MaxHearCalls == 3

\* A Language that has heard nothing, one that has heard 3 words and one
\* that has heard 47, its recent-words list full
HearingInit ==
    /\ lang \in {NewLanguage, LanguageAfter(3 + InitTaught), LanguageAfter(VocabularyLimit - 1)}
    /\ langCalls = 0
    /\ lastHeard = <<>>
    /\ met = <<>> /\ metCalls = 0
    /\ emo = <<>> /\ emoCalls = 0
    /\ creatures = <<>> /\ objects = <<>> /\ grid = <<>> /\ timeOfDay = 0
    /\ pc = "idle" /\ idx = 1 /\ nearby = <<>> /\ nextID = 1 /\ ticks = 0
    /\ queries = 0 /\ gridOps = 0 /\ tickStart = <<>> /\ births = 0
    /\ eligible = 0 /\ meals = <<>>
    /\ learn = <<>> /\ learnCalls = 0 /\ genome = <<>> /\ geneCalls = 0
    /\ brain = <<>> /\ brainCalls = 0
    /\ kin = <<>> /\ kinCalls = 0
    /\ spatial = <<>>

\* Language.HearWord(word, context)
HearingHearWord ==
    /\ langCalls < MaxHearCalls
    /\ \E raw \in RawWords, hasContext \in BOOLEAN :
          /\ lang' \in LanguageHearWord(lang, raw, hasContext)
          /\ lastHeard' = [ raw |-> raw, hasContext |-> hasContext ]
    /\ langCalls' = langCalls + 1
    /\ LangOthersUnchanged

HearingSpec == HearingInit /\ [][HearingHearWord]_vars

\* The recent-words list after word has joined a list of at most 5, the
\* oldest word leaving first
C33_Joined(recent, word) ==
    IF Len(recent) < 5 THEN recent \o <<word>>
    ELSE SubSeq(recent, Len(recent) - 3, Len(recent)) \o <<word>>

\* C33: HearWord with a word that is empty after trimming changes nothing in
\* the Language; every other HearWord appends the normalized word to the
\* recent-words list, which never holds more than 5 words and drops the
\* oldest first.
C33_HearWordRecordsRecent ==
    /\ [][langCalls' = langCalls + 1 =>
              IF lastHeard'.raw.base = EmptyWord
              THEN lang' = lang
              ELSE lang'.RecentWords = C33_Joined(lang.RecentWords, lastHeard'.raw.base)]_vars
    /\ [](Len(lang.RecentWords) <= 5)

\* C33 witness: a word written in upper case between blanks was heard by a
\* Language whose list was full: it is the newest of 5 and the oldest, word
\* 43, has left
C33_Witness ==
    /\ langCalls = 1
    /\ lastHeard.raw = [base |-> NumWords, form |-> "mixed"]
    /\ lang.RecentWords = <<44, 45, 46, 47, NumWords>>


----------------------------------------------------------------------------
(* CrowdSpec: World.Update on a world at, or one short of, its maximum      *)

\* The n creatures of a crowded world: two fertile adults side by side, and
\* further adults 100 px apart
Crowd(n) ==
    [k \in 1..n |-> IF k <= 2 THEN Adult(k, 1000 + 20 * (k - 1))
                    ELSE Adult(k, 1100 + 100 * (k - 2))]

\* Worlds of 19 and of 20 creatures with an apple, and the world of three
\* creatures about to die
CrowdConfigs ==
    { [ creatures |-> Crowd(n),
        objects |-> << NewFood(n + 1, 500 * PosUnit, GroundLevel - 5 * PosUnit, 25 * Unit) >>,
        timeOfDay |-> DayLength \div 2, built |-> TRUE ] :
      n \in {MaxCreatures - 1, MaxCreatures} }
    \cup
    { [ creatures |-> << Starving(1, 3000, 10000), Starving(2, 3010, 11000), Elder(3, 3020) >>,
        objects |-> << >>,
        timeOfDay |-> 1, built |-> TRUE ] }

CrowdInit ==
    /\ \E w \in CrowdConfigs :
          /\ creatures = w.creatures
          /\ objects = w.objects
          /\ timeOfDay = w.timeOfDay
          /\ nextID = Len(w.creatures) + Len(w.objects) + 1
          /\ tickStart = [ creatures |-> w.creatures, objects |-> w.objects ]
          /\ grid = LeftGrid(w)
    /\ pc = "idle" /\ idx = 1 /\ nearby = <<>> /\ ticks = 0
    /\ queries = 0 /\ gridOps = 0 /\ births = 0 /\ eligible = 0 /\ meals = <<>>
    /\ learn = <<>> /\ learnCalls = 0 /\ genome = <<>> /\ geneCalls = 0
    /\ brain = <<>> /\ brainCalls = 0
    /\ kin = <<>> /\ kinCalls = 0
    /\ spatial = <<>>
    /\ met = <<>> /\ metCalls = 0
    /\ lang = <<>> /\ langCalls = 0 /\ lastHeard = <<>>
    /\ emo = <<>> /\ emoCalls = 0

\* World.Update, lines 68-86: one iteration.  The brains of the first two
\* creatures leave either output vector, those of the others the low one.
CrowdUpdateCreature ==
    /\ pc = "creatures" /\ idx <= Len(creatures)
    /\ \E processed \in (IF idx <= 2 THEN BrainOutputs ELSE {Resting}) :
          LET c == creatures[idx]
          IN  /\ nearby' = GetNearby(grid, c.X, c.Y, VisionRange * PosUnit)
              /\ creatures' = [creatures EXCEPT ![idx] =
                                  settle(CreatureUpdate(UpdateSensors(c, nearby', creatures),
                                                        processed))]
    /\ queries' = queries + 1
    /\ IF idx < Len(creatures) THEN idx' = idx + 1 /\ pc' = pc
                               ELSE idx' = 1 /\ pc' = "objects"
    /\ UNCHANGED <<objects, grid, timeOfDay, ticks, nextID, gridOps, tickStart,
                   births, eligible, meals>>
    /\ WorldOthersUnchanged

CrowdNext ==
    \/ WorldBeginUpdate \/ WorldGridAddCreature \/ WorldGridAddObject \/ WorldLoopDone
    \/ CrowdUpdateCreature \/ WorldUpdateObjects \/ WorldInteract \/ WorldBreeding
    \/ WorldPrune

CrowdSpec == CrowdInit /\ [][CrowdNext]_vars

\* C37: breeding never raises the population above the world's maximum: a
\* world of at most 20 creatures holds at most 20 after a tick, and no child
\* is created in a tick that starts breeding resolution with 20 or more.
C37_PopulationCapped ==
    /\ [](Len(creatures) <= MaxCreatures)
    /\ [][(pc = "breeding" /\ Len(creatures) >= MaxCreatures) =>
              (creatures' = creatures /\ births' = 0)]_vars

\* C37 witness: breeding resolution found a pair passing the test in a world
\* of 20 creatures and added nobody
C37_Witness ==
    /\ pc = "prune"
    /\ Len(creatures) = MaxCreatures
    /\ Len(tickStart.creatures) = MaxCreatures
    /\ eligible >= 1
    /\ births = 0


----------------------------------------------------------------------------
(* LifeSpec: World.Update, tick after tick, on creatures at the end of      *)
(* their lifespan                                                           *)

\* An elder whose Age is left ticks short of 60 minutes
Aged(id, x, left) ==
    [Adult(id, x) EXCEPT !.Age = 60 * TicksPerMinute - left, !.AgeStage = "elder"]

\* Worlds of elders that reach 60 minutes within the ticks explored, with an
\* apple and a ball in reach, and a world of two adults starved to Health 0.1
LifeConfigs ==
    { [ creatures |-> << Aged(1, 1000, 0), Aged(2, 1015, left) >>,
        objects |-> << NewFood(3, 1010 * PosUnit, GroundLevel - 5 * PosUnit, 25 * Unit),
                       IdleBall(4, 1030 * PosUnit, GroundLevel - 10 * PosUnit) >>,
        timeOfDay |-> DayLength \div 2, built |-> TRUE ] : left \in {0, 1} }
    \cup
    { [ creatures |-> << Starving(1, 3000, 10000), Aged(2, 3010, 0) >>,
        objects |-> << >>,
        timeOfDay |-> 1, built |-> TRUE ] }

LifeInit ==
    /\ \E w \in LifeConfigs :
          /\ creatures = w.creatures
          /\ objects = w.objects
          /\ timeOfDay = w.timeOfDay
          /\ nextID = Len(w.creatures) + Len(w.objects) + 1
          /\ tickStart = [ creatures |-> w.creatures, objects |-> w.objects ]
          /\ grid = LeftGrid(w)
    /\ pc = "idle" /\ idx = 1 /\ nearby = <<>> /\ ticks = 0
    /\ queries = 0 /\ gridOps = 0 /\ births = 0 /\ eligible = 0 /\ meals = <<>>
    /\ learn = <<>> /\ learnCalls = 0 /\ genome = <<>> /\ geneCalls = 0
    /\ brain = <<>> /\ brainCalls = 0
    /\ kin = <<>> /\ kinCalls = 0
    /\ spatial = <<>>
    /\ met = <<>> /\ metCalls = 0
    /\ lang = <<>> /\ langCalls = 0 /\ lastHeard = <<>>
    /\ emo = <<>> /\ emoCalls = 0

\* The position of World.Update: the statement it is at, the index of its
\* loop, and the number of calls that have returned
control == <<pc, idx, ticks>>

\* World.Update moves on: a call in progress runs its next statement, and
\* the game loop makes the next call.  Every step of WorldNext changes
\* control, and WorldNext is enabled exactly where the first conjunct holds.
UpdateRuns ==
    /\ pc # "idle" \/ ticks < MaxTicks
    /\ pc' \in {"idle", "addCreatures", "addObjects", "creatures", "objects",
                "interactions", "breeding", "prune"}
    /\ idx' \in {1, idx + 1}
    /\ ticks' \in {ticks, ticks + 1}

\* The game loop calls World.Update again and again, and each call runs to
\* its return
LifeSpec == LifeInit /\ [][WorldNext]_vars /\ WF_control(UpdateRuns)

\* C38: under repeated world ticks every creature is eventually removed from
\* the world: its Age grows on every tick, so the death predicate (Age beyond
\* 60, or Health <= 0 earlier) eventually holds, and the creature is pruned
\* at the end of that tick.
C38_EveryCreatureRemoved ==
    /\ <>[](creatures = <<>>)
    /\ [][(pc = "creatures" /\ pc' # "idle") =>
              creatures'[idx].Age > creatures[idx].Age]_vars
    /\ [](pc = "idle" => \A k \in DOMAIN creatures : ~IsDead(creatures[k]))

\* C38 witness: the second tick has returned and the world is empty; the
\* tick began with a creature in it, at 60 minutes, not yet beyond
C38_Witness ==
    /\ pc = "idle" /\ ticks = 2
    /\ creatures = <<>>
    /\ Len(tickStart.creatures) >= 1
    /\ \A k \in DOMAIN tickStart.creatures : ~IsDead(tickStart.creatures[k])

=============================================================================
